---- MODULE Spec2Model ----
(***************************************************************************)
(* A model of the nodecules graph execution engine:                        *)
(*   core/graph.py     GraphValidator, GraphExecutionPlanner               *)
(*   core/types.py     ExecutionContext, BaseNode.validate_inputs          *)
(*   core/executor.py  GraphExecutor (sequential, parallel-batch,          *)
(*                     streaming)                                          *)
(*   core/instance_executor.py  GraphInstanceExecutor                      *)
(*   plugins           the input, text and chat nodes                      *)
(***************************************************************************)
EXTENDS Integers, Sequences, FiniteSets, TLC

(***************************************************************************)
(* Bounds of the model.                                                    *)
(***************************************************************************)
\* node ids a planner graph may mention (its nodes are a prefix of them)
MaxNodes == 3
\* edges of a planner graph drawn freely
MaxEdges == 3

NodeName == <<"A", "B", "C", "D", "E", "F">>

\* The ids an edge may name. A graph's nodes are the first n of them, in
\* insertion order; an id beyond the first n is a node that does not exist.
Ids == {NodeName[i] : i \in 1..MaxNodes}

NodePrefix(n) == [i \in 1..n |-> NodeName[i]]

(***************************************************************************)
(* Helpers on sequences.                                                   *)
(***************************************************************************)
Range(s) == {s[i] : i \in 1..Len(s)}

RECURSIVE Flatten(_)
Flatten(ss) == IF ss = <<>> THEN <<>> ELSE Head(ss) \o Flatten(Tail(ss))

\* the position of x in s, 0 when absent
RECURSIVE IndexOf(_, _)
IndexOf(s, x) ==
    IF s = <<>> THEN 0
    ELSE IF Head(s) = x THEN 1
    ELSE LET r == IndexOf(Tail(s), x) IN IF r = 0 THEN 0 ELSE r + 1

(***************************************************************************)
(* core/types.py: EdgeData                                                 *)
(***************************************************************************)
EdgeData(sn, sp, tn, tp) ==
    [source_node |-> sn, source_port |-> sp, target_node |-> tn, target_port |-> tp]

\* signature = (source_node, source_port, target_node, target_port)
Signature(e) == <<e.source_node, e.source_port, e.target_node, e.target_port>>

(***************************************************************************)
(* core/graph.py: Kahn's algorithm, shared by both _topological_sort       *)
(***************************************************************************)
\* in_degree after the two build loops: 0 for every node, +1 per edge on its
\* target (a target that is no node gets a key of its own)
InDegree(ns, es) ==
    [x \in Range(ns) \cup {es[i].target_node : i \in 1..Len(es)} |->
        Cardinality({i \in 1..Len(es) : es[i].target_node = x})]

\* graph[node]: the targets of node's outgoing edges, in edge order
RECURSIVE Neighbors(_, _)
Neighbors(es, node) ==
    IF es = <<>> THEN <<>>
    ELSE IF Head(es).source_node = node
         THEN <<Head(es).target_node>> \o Neighbors(Tail(es), node)
         ELSE Neighbors(Tail(es), node)

\* for neighbor in graph[node]: in_degree[neighbor] -= 1; enqueue on zero
RECURSIVE ReduceNeighbors(_, _, _)
ReduceNeighbors(nbs, indeg, queue) ==
    IF nbs = <<>> THEN [indeg |-> indeg, queue |-> queue]
    ELSE LET nb == Head(nbs)
             d  == [indeg EXCEPT ![nb] = @ - 1]
         IN ReduceNeighbors(Tail(nbs), d,
                            IF d[nb] = 0 THEN Append(queue, nb) ELSE queue)

\* while queue: node = queue.popleft(); result.append(node); ...
RECURSIVE KahnLoop(_, _, _, _)
KahnLoop(es, queue, result, indeg) ==
    IF queue = <<>> THEN result
    ELSE LET node == Head(queue)
             r    == ReduceNeighbors(Neighbors(es, node), indeg, Tail(queue))
         IN KahnLoop(es, r.queue, Append(result, node), r.indeg)

\* a queue that starts with the first node of in-degree zero alone
InitialQueueFirst(ns, indeg) ==
    LET zero == SelectSeq(ns, LAMBDA n : indeg[n] = 0)
    IN IF zero = <<>> THEN <<>> ELSE <<Head(zero)>>

\* queue = deque([node for node, degree in in_degree.items() if degree == 0])
\* (a key that is no node has degree >= 1, so only nodes start in the queue)
InitialQueue(ns, indeg) == SelectSeq(ns, LAMBDA n : indeg[n] = 0)

Kahn(ns, es) ==
    LET indeg == InDegree(ns, es)
    IN KahnLoop(es, InitialQueue(ns, indeg), <<>>, indeg)

\* _topological_sort without "if len(result) != len(self.graph.nodes): raise"
ValidatorTopologicalSortUnchecked(ns, es) ==
    [raised |-> FALSE, result |-> Kahn(ns, es)]

\* GraphValidator._topological_sort: raises when len(result) != len(nodes)
ValidatorTopologicalSort(ns, es) ==
    LET result == Kahn(ns, es)
    IN [raised |-> Len(result) # Len(ns), result |-> result]

\* _topological_sort whose queue starts with every node, whatever its degree
PlannerTopologicalSortAllQueued(ns, es) ==
    KahnLoop(es, ns, <<>>, InDegree(ns, es))

\* GraphExecutionPlanner._topological_sort: the same loop, no length check
PlannerTopologicalSort(ns, es) == Kahn(ns, es)

(***************************************************************************)
(* core/graph.py: GraphValidator.validate                                  *)
(* An error string is modelled by its kind and the node id (or the edge    *)
(* signature) that the text names.                                         *)
(***************************************************************************)
NoSig == <<"", "", "", "">>

CycleError == [kind |-> "cycles", node |-> "", sig |-> NoSig]

\* the orphan check with "elif" for the target: one error per edge at most
RECURSIVE OrphanErrorsElif(_, _)
OrphanErrorsElif(ns, es) ==
    IF es = <<>> THEN <<>>
    ELSE LET e == Head(es)
         IN (IF e.source_node \notin Range(ns)
             THEN <<[kind |-> "non-existent source node",
                     node |-> e.source_node, sig |-> NoSig]>>
             ELSE IF e.target_node \notin Range(ns)
             THEN <<[kind |-> "non-existent target node",
                     node |-> e.target_node, sig |-> NoSig]>>
             ELSE <<>>)
            \o OrphanErrorsElif(ns, Tail(es))

RECURSIVE OrphanErrors(_, _)
OrphanErrors(ns, es) ==
    IF es = <<>> THEN <<>>
    ELSE LET e == Head(es)
             s == IF e.source_node \notin Range(ns)
                  THEN <<[kind |-> "non-existent source node",
                          node |-> e.source_node, sig |-> NoSig]>>
                  ELSE <<>>
             t == IF e.target_node \notin Range(ns)
                  THEN <<[kind |-> "non-existent target node",
                          node |-> e.target_node, sig |-> NoSig]>>
                  ELSE <<>>
         IN s \o t \o OrphanErrors(ns, Tail(es))

\* a duplicate check that flags a repeated signature once, however often
\* it is repeated
RECURSIVE DuplicateErrorsOnce(_, _)
DuplicateErrorsOnce(es, seen) ==
    IF es = <<>> THEN <<>>
    ELSE LET sg == Signature(Head(es))
         IN (IF sg \in seen /\ \A i \in 2..Len(es) : Signature(es[i]) # sg
             THEN <<[kind |-> "Duplicate edge", node |-> "", sig |-> sg]>>
             ELSE <<>>)
            \o DuplicateErrorsOnce(Tail(es), seen \cup {sg})

RECURSIVE DuplicateErrors(_, _)
DuplicateErrors(es, seen) ==
    IF es = <<>> THEN <<>>
    ELSE LET sg == Signature(Head(es))
         IN (IF sg \in seen
             THEN <<[kind |-> "Duplicate edge", node |-> "", sig |-> sg]>>
             ELSE <<>>)
            \o DuplicateErrors(Tail(es), seen \cup {sg})

ValidateErrors(ns, es) ==
    (IF ValidatorTopologicalSort(ns, es).raised THEN <<CycleError>> ELSE <<>>)
    \o OrphanErrors(ns, es)
    \o DuplicateErrors(es, {})

\* returns (len(errors) == 0, errors)
Validate(ns, es) ==
    LET errors == ValidateErrors(ns, es)
    IN [is_valid |-> errors = <<>>, errors |-> errors]

(***************************************************************************)
(* core/graph.py: GraphExecutionPlanner                                    *)
(***************************************************************************)
GetExecutionOrder(ns, es) ==
    IF ~Validate(ns, es).is_valid
    THEN [raised |-> "GraphValidationError", order |-> <<>>]
    ELSE [raised |-> "none", order |-> PlannerTopologicalSort(ns, es)]

\* _build_dependency_graph with the edge read backwards:
\* dependencies[edge.source_node].add(edge.target_node)
DependenciesReversed(es, node) ==
    {es[i].target_node : i \in {j \in 1..Len(es) : es[j].source_node = node}}

\* _build_dependency_graph, read as dependencies.get(node_id, set())
Dependencies(es, node) ==
    {es[i].source_node : i \in {j \in 1..Len(es) : es[j].target_node = node}}

\* ready_nodes without the "dependencies[node].issubset(processed)" test
ReadyNodesUnordered(ns, es, processed) ==
    SelectSeq(ns, LAMBDA n : n \notin processed)

ReadyNodes(ns, es, processed) ==
    SelectSeq(ns, LAMBDA n : n \notin processed /\ Dependencies(es, n) \subseteq processed)

\* a wave loop that returns the batches it has when no node is ready
RECURSIVE BatchLoopPartial(_, _, _, _)
BatchLoopPartial(ns, es, acc, processed) ==
    IF ~(Cardinality(processed) < Len(ns))
    THEN [raised |-> "none", batches |-> acc]
    ELSE LET ready_nodes == ReadyNodes(ns, es, processed)
         IN IF ready_nodes = <<>>
            THEN [raised |-> "none", batches |-> acc]
            ELSE BatchLoopPartial(ns, es, Append(acc, ready_nodes),
                                  processed \cup Range(ready_nodes))

RECURSIVE BatchLoop(_, _, _, _)
BatchLoop(ns, es, acc, processed) ==
    IF ~(Cardinality(processed) < Len(ns))
    THEN [raised |-> "none", batches |-> acc]
    ELSE LET ready_nodes == ReadyNodes(ns, es, processed)
         IN IF ready_nodes = <<>>
            THEN [raised |-> "GraphValidationError", batches |-> acc]
            ELSE BatchLoop(ns, es, Append(acc, ready_nodes),
                           processed \cup Range(ready_nodes))

GetParallelBatches(ns, es) == BatchLoop(ns, es, <<>>, {})

(***************************************************************************)
(* Node types: the registry (plugins/builtin_nodes.py BUILTIN_NODES) and   *)
(* each type's declared ports.  "nope" is a node_type no registry holds.   *)
(***************************************************************************)
Null == "None"

PortSpec(name, required, default) ==
    [name |-> name, required |-> required, default |-> default]

node_registry == {"input", "text_transform", "smart_chat", "immutable_chat"}

NodeTypes == node_registry \cup {"nope"}

\* node_instance.spec.inputs
SpecInputs(type) ==
    CASE type = "input" -> <<>>
      [] type = "text_transform" -> <<PortSpec("text", TRUE, Null)>>
      [] type = "smart_chat" ->
            <<PortSpec("message", TRUE, Null),
              PortSpec("context_id", FALSE, Null)>>
      [] type = "immutable_chat" ->
            <<PortSpec("message", TRUE, Null),
              PortSpec("context_key", FALSE, Null),
              PortSpec("model", FALSE, Null),
              PortSpec("system_prompt", FALSE, Null),
              PortSpec("temperature", FALSE, Null),
              PortSpec("provider", FALSE, Null)>>
      [] OTHER -> <<>>

\* the keys of the mapping that the type's execute returns
OutputKeys(type) ==
    CASE type = "input" -> {"output"}
      [] type = "text_transform" -> {"output"}
      [] type = "smart_chat" -> {"response", "context_id"}
      [] type = "immutable_chat" -> {"response", "context_key", "message_count"}
      [] OTHER -> {}

\* hasattr(node_instance, 'execute_streaming')
HasExecuteStreaming(type) == type = "immutable_chat"

\* execute awaits a language model or the context store; the execute of the
\* input and text nodes has no await, so it runs through without suspension
Suspends(type) == type \in {"smart_chat", "immutable_chat"}

(***************************************************************************)
(* The state.                                                              *)
(***************************************************************************)
VARIABLES
    nodes,           \* graph.nodes: the node ids, in insertion order
    edges,           \* graph.edges
    node_type,       \* graph.nodes[n].node_type
    streaming,       \* the nodes whose parameters carry a truthy "streaming"
    param_value,     \* graph.nodes[n].parameters["value"] of the input nodes
    call_inputs,     \* the inputs argument the caller hands to the entrypoint
    ret,             \* the last validator / planner call and what it returned
    mode,            \* the executor entrypoint of this run
    main_pc,         \* where the entrypoint's coroutine stands
    execution_order, \* planner.get_execution_order()
    batches,         \* planner.get_parallel_batches()
    idx,             \* nodes (or batches) of the plan already behind the loop
    task_pc,         \* where each node's _execute_node call stands
    node_status,     \* context.node_status
    node_outputs,    \* context.node_outputs
    errors,          \* context.errors
    completed_at,    \* context.completed_at is set
    called,          \* how often each node's execute was called
    chunks,          \* the chunks the node's execute_streaming has yielded, in order
    events,          \* what execute_graph_streaming has yielded
    exc,             \* the exception on its way to the entrypoint's handler
    raised,          \* the exception the entrypoint raised to its caller
    http_status,     \* the status of the HTTP response to POST /executions/
    db_execution,    \* db_execution.status, the stored execution record
    first_run,       \* what the caller kept of the context of an earlier run
    reruns,          \* how often the caller handed the context to a further run
    instance,        \* the GraphInstance row: run_count and last_outputs
    executions,      \* the status of the InstanceExecution rows, oldest first
    history          \* the execute_instance and reset_instance calls that have ended

graph_vars == <<nodes, edges, node_type, streaming, param_value, call_inputs>>
run_vars == <<mode, main_pc, execution_order, batches, idx, task_pc, node_status,
              node_outputs, errors, completed_at, called, chunks, events, exc, raised>>
instance_vars == <<instance, executions, history>>
caller_vars == <<http_status, db_execution, first_run, reruns, instance_vars>>
vars == <<graph_vars, caller_vars, ret, run_vars>>

EmptyMap == [x \in {} |-> Null]

\* An exception is modelled by its type and by what its message names: the
\* failing node and the cause.
Exception(type, node, cause) == [type |-> type, node |-> node, cause |-> cause]

NoExc == Exception("none", "", "")

Put(map, k, v) == [x \in DOMAIN map \cup {k} |-> IF x = k THEN v ELSE map[x]]

NodeSet == Range(nodes)

\* a caller that has made no request and kept nothing of an earlier run
NoFirstRun == [node_status |-> EmptyMap, node_outputs |-> EmptyMap, kept |-> FALSE]

\* create_instance: run_count=0, and last_outputs is NULL (a NULL column is
\* the empty mapping with last_outputs_null set)
NoInstance == [run_count |-> 0, last_outputs |-> EmptyMap, last_outputs_null |-> TRUE]

NoCaller ==
    /\ http_status = "none"
    /\ db_execution = "none"
    /\ first_run = NoFirstRun
    /\ reruns = 0
    /\ instance = NoInstance
    /\ executions = <<>>
    /\ history = <<>>

TypeOf(n) == IF n \in DOMAIN node_type THEN node_type[n] ELSE ""

(***************************************************************************)
(* The planner specification: a graph is drawn, and validate,              *)
(* get_execution_order or get_parallel_batches is called on it.            *)
(***************************************************************************)
\* target ports of the edges of a planner graph (two of text_concat's)
PlanPorts == {"text1", "text2"}

\* The edges of a planner graph: every pair of ids joined at "text1", and
\* A -> B at "text2" as well (a parallel edge that is no duplicate).
PlanEdges ==
    {EdgeData(s, "output", t, "text1") : s \in Ids, t \in Ids}
    \cup {EdgeData(NodeName[1], "output", NodeName[2], p) : p \in PlanPorts}

\* the diamond A->B, A->C, B->D, C->D
DiamondNodes == <<"A", "B", "C", "D">>

DiamondEdges ==
    <<EdgeData("A", "output", "B", "text1"), EdgeData("A", "output", "C", "text1"),
      EdgeData("B", "output", "D", "text1"), EdgeData("C", "output", "D", "text2")>>

NoRet ==
    [op |-> "none", raised |-> "none", is_valid |-> FALSE, errors |-> <<>>,
     order |-> <<>>, batches |-> <<>>]

\* no executor entrypoint has been called
NoRun ==
    /\ mode = "none"
    /\ main_pc = "idle"
    /\ execution_order = <<>>
    /\ batches = <<>>
    /\ idx = 0
    /\ task_pc = [n \in NodeSet |-> "none"]
    /\ node_status = EmptyMap
    /\ node_outputs = EmptyMap
    /\ errors = EmptyMap
    /\ completed_at = FALSE
    /\ called = [n \in NodeSet |-> 0]
    /\ chunks = [n \in NodeSet |-> <<>>]
    /\ events = <<>>
    /\ exc = NoExc
    /\ raised = NoExc

InitPlanner ==
    /\ \/ /\ \E n \in 0..MaxNodes : nodes = NodePrefix(n)
          /\ \E k \in 0..MaxEdges : edges \in [1..k -> PlanEdges]
       \/ /\ nodes = DiamondNodes
          /\ edges = DiamondEdges
    /\ node_type = [n \in NodeSet |-> "input"]
    /\ streaming = {}
    /\ param_value = [n \in NodeSet |-> Null]
    /\ call_inputs = EmptyMap
    /\ ret = NoRet
    /\ NoRun
    /\ NoCaller

\* GraphValidator(graph).validate()
CallValidate ==
    /\ mode = "none"
    /\ ret = NoRet
    /\ LET r == Validate(nodes, edges)
       IN ret' = [NoRet EXCEPT !.op = "validate", !.is_valid = r.is_valid,
                               !.errors = r.errors]
    /\ UNCHANGED <<graph_vars, caller_vars, run_vars>>

\* GraphExecutionPlanner(graph).get_execution_order()
CallGetExecutionOrder ==
    /\ mode = "none"
    /\ ret = NoRet
    /\ LET r == GetExecutionOrder(nodes, edges)
       IN ret' = [NoRet EXCEPT !.op = "get_execution_order", !.raised = r.raised,
                               !.order = r.order]
    /\ UNCHANGED <<graph_vars, caller_vars, run_vars>>

\* GraphExecutionPlanner(graph).get_parallel_batches()
CallGetParallelBatches ==
    /\ mode = "none"
    /\ ret = NoRet
    /\ LET r == GetParallelBatches(nodes, edges)
       IN ret' = [NoRet EXCEPT !.op = "get_parallel_batches", !.raised = r.raised,
                               !.batches = IF r.raised = "none" THEN r.batches ELSE <<>>]
    /\ UNCHANGED <<graph_vars, caller_vars, run_vars>>

NextPlanner == CallValidate \/ CallGetExecutionOrder \/ CallGetParallelBatches

SpecPlanner == InitPlanner /\ [][NextPlanner]_vars

(***************************************************************************)
(* core/types.py: ExecutionContext.get_input_value, and the input          *)
(* collection and validation of _execute_node                              *)
(***************************************************************************)
\* a get_input_value that lets a later edge into the port override the first
RECURSIVE GetInputValueLast(_, _, _, _)
GetInputValueLast(es, outs, node_id, port_name) ==
    IF es = <<>> THEN Null
    ELSE LET edge == es[Len(es)]
         IN IF edge.target_node = node_id /\ edge.target_port = port_name
            THEN IF edge.source_node \in DOMAIN outs
                    /\ edge.source_port \in DOMAIN outs[edge.source_node]
                 THEN outs[edge.source_node][edge.source_port]
                 ELSE Null
            ELSE GetInputValueLast(SubSeq(es, 1, Len(es) - 1), outs, node_id, port_name)

\* source_outputs = node_outputs.get(edge.source_node, {});
\* source_outputs.get(edge.source_port), for the first edge into the port
RECURSIVE GetInputValue(_, _, _, _)
GetInputValue(es, outs, node_id, port_name) ==
    IF es = <<>> THEN Null
    ELSE LET edge == Head(es)
         IN IF edge.target_node = node_id /\ edge.target_port = port_name
            THEN IF edge.source_node \in DOMAIN outs
                    /\ edge.source_port \in DOMAIN outs[edge.source_node]
                 THEN outs[edge.source_node][edge.source_port]
                 ELSE Null
            ELSE GetInputValue(Tail(es), outs, node_id, port_name)

\* an input collection that hands every unfed port its default, required or not
RECURSIVE CollectInputsAnyDefault(_, _, _, _, _)
CollectInputsAnyDefault(ports, es, outs, node_id, inputs) ==
    IF ports = <<>> THEN inputs
    ELSE LET port  == Head(ports)
             value == GetInputValue(es, outs, node_id, port.name)
             next  == IF value # Null THEN Put(inputs, port.name, value)
                      ELSE IF port.default # Null
                           THEN Put(inputs, port.name, port.default)
                           ELSE inputs
         IN CollectInputsAnyDefault(Tail(ports), es, outs, node_id, next)

\* the loop over node_instance.spec.inputs that fills the inputs dict
RECURSIVE CollectInputs(_, _, _, _, _)
CollectInputs(ports, es, outs, node_id, inputs) ==
    IF ports = <<>> THEN inputs
    ELSE LET port  == Head(ports)
             value == GetInputValue(es, outs, node_id, port.name)
             next  == IF value # Null THEN Put(inputs, port.name, value)
                      ELSE IF port.required /\ port.default # Null
                           THEN Put(inputs, port.name, port.default)
                           ELSE inputs
         IN CollectInputs(Tail(ports), es, outs, node_id, next)

\* [p.name for p in spec.inputs if p.required and p.name not in inputs]
MissingRequired(ports, inputs) ==
    SelectSeq(ports, LAMBDA port : port.required /\ port.name \notin DOMAIN inputs)

\* validate_inputs that accepts whatever it is given
ValidateInputsAlways(ports, inputs) == TRUE

\* BaseNode.validate_inputs
ValidateInputs(ports, inputs) ==
    \A i \in 1..Len(ports) : ports[i].required => ports[i].name \in DOMAIN inputs

\* GraphExecutor._node_supports_streaming
NodeSupportsStreaming(n) ==
    n \in streaming \/ TypeOf(n) \in {"immutable_chat", "smart_chat"}

(***************************************************************************)
(* core/executor.py: the entrypoints                                       *)
(***************************************************************************)
Modes == {"execute_graph", "execute_graph_with_context", "execute_parallel_batches",
          "execute_graph_streaming"}

\* the entrypoints that await one node after the other
LoopModes == {"execute_graph", "execute_graph_with_context", "execute_graph_streaming"}

Event(type, node_id, status, outputs, error) ==
    [type |-> type, node_id |-> node_id, status |-> status, outputs |-> outputs,
     error |-> error, chunk |-> ""]

\* {"type": "node_chunk", "node_id": node_id, "chunk": chunk}
ChunkEvent(node_id, chunk) ==
    [Event("node_chunk", node_id, "", EmptyMap, NoExc) EXCEPT !.chunk = chunk]

\* the pieces in which the language model streams its response, in the
\* order in which it generates them
ResponseStream == <<"Hel", "lo", " wor", "ld">>

ResponseChunks == Range(ResponseStream)

\* the node the sequential and the streaming loop stand at
CurrentNode == IF idx < Len(execution_order) THEN execution_order[idx + 1] ELSE ""

CurrentBatch == IF idx < Len(batches) THEN batches[idx + 1] ELSE <<>>

\* The tasks inside a stretch of _execute_node that holds the event loop:
\* from set_node_status(RUNNING) to the await of execute there is no
\* suspension point, and an execute without await goes on to the end.
LoopHolders ==
    {n \in NodeSet : \/ task_pc[n] = "resolve"
                     \/ task_pc[n] = "executing" /\ ~Suspends(TypeOf(n))}

LoopFree == LoopHolders = {}

LoopFreeFor(n) == LoopHolders \subseteq {n}

\* The entrypoint is called: the context is made (or reused) and
\* "Initialize all nodes as pending".
Enter ==
    /\ mode \in Modes
    /\ main_pc = "idle"
    /\ node_status' = [n \in NodeSet |-> "pending"]
    /\ main_pc' = "plan"
    /\ UNCHANGED <<graph_vars, caller_vars, ret, mode, execution_order, batches, idx, task_pc,
                   node_outputs, errors, completed_at, called, chunks, events,
                   exc, raised>>

\* planner.get_execution_order() of execute_graph and execute_graph_streaming
PlanOrder ==
    /\ mode \in LoopModes
    /\ main_pc = "plan"
    /\ LET r == GetExecutionOrder(nodes, edges)
       IN IF r.raised = "none"
          THEN /\ execution_order' = r.order
               /\ main_pc' = "loop"
               /\ exc' = exc
          ELSE /\ execution_order' = execution_order
               /\ main_pc' = "except"
               /\ exc' = Exception(r.raised, "", "Invalid graph")
    /\ UNCHANGED <<graph_vars, caller_vars, ret, mode, batches, idx, task_pc, node_status,
                   node_outputs, errors, completed_at, called, chunks, events, raised>>

\* planner.get_parallel_batches() of execute_parallel_batches
PlanBatches ==
    /\ mode = "execute_parallel_batches"
    /\ main_pc = "plan"
    /\ LET r == GetParallelBatches(nodes, edges)
       IN IF r.raised = "none"
          THEN /\ batches' = r.batches
               /\ main_pc' = "loop"
               /\ exc' = exc
          ELSE /\ batches' = batches
               /\ main_pc' = "except"
               /\ exc' = Exception(r.raised, "", "Cannot resolve dependencies")
    /\ UNCHANGED <<graph_vars, caller_vars, ret, mode, execution_order, idx, task_pc, node_status,
                   node_outputs, errors, completed_at, called, chunks, events, raised>>

\* _execute_node without set_node_status(node_id, NodeStatus.RUNNING)
StartNodeNoRunning(n) ==
    /\ mode \in LoopModes
    /\ main_pc = "loop"
    /\ n = CurrentNode
    /\ n \in NodeSet
    /\ main_pc' = "await"
    /\ task_pc' = [task_pc EXCEPT ![n] = "resolve"]
    /\ UNCHANGED <<graph_vars, caller_vars, ret, mode, execution_order, batches, idx, node_status,
                   node_outputs, errors, completed_at, called, chunks, events, exc,
                   raised>>

\* for node_id in execution_order: the loop calls _execute_node (or iterates
\* _execute_node_streaming), whose first statement sets the status RUNNING
StartNode(n) ==
    /\ mode \in LoopModes
    /\ main_pc = "loop"
    /\ n = CurrentNode
    /\ n \in NodeSet
    /\ main_pc' = "await"
    /\ task_pc' = [task_pc EXCEPT ![n] = "resolve"]
    /\ node_status' = [node_status EXCEPT ![n] = "running"]
    /\ UNCHANGED <<graph_vars, caller_vars, ret, mode, execution_order, batches, idx, node_outputs,
                   errors, completed_at, called, chunks, events, exc, raised>>

\* tasks = [self._execute_node(context, node_id) for node_id in batch];
\* asyncio.gather(*tasks) schedules one task per node, in batch order
LaunchBatch ==
    /\ mode = "execute_parallel_batches"
    /\ main_pc = "loop"
    /\ idx < Len(batches)
    /\ main_pc' = "gather"
    /\ task_pc' = [n \in NodeSet |->
                     IF n \in Range(CurrentBatch) THEN "ready" ELSE task_pc[n]]
    /\ UNCHANGED <<graph_vars, caller_vars, ret, mode, execution_order, batches, idx, node_status,
                   node_outputs, errors, completed_at, called, chunks, events, exc,
                   raised>>

\* The event loop runs the first step of the batch's next task (tasks start
\* in the order gather made them).
TaskStart(n) ==
    /\ mode = "execute_parallel_batches"
    /\ task_pc[n] = "ready"
    /\ LoopFree
    /\ \A i \in 1..Len(CurrentBatch) :
         i < IndexOf(CurrentBatch, n) => task_pc[CurrentBatch[i]] # "ready"
    /\ task_pc' = [task_pc EXCEPT ![n] = "resolve"]
    /\ node_status' = [node_status EXCEPT ![n] = "running"]
    /\ UNCHANGED <<graph_vars, caller_vars, ret, mode, main_pc, execution_order, batches, idx,
                   node_outputs, errors, completed_at, called, chunks, events, exc,
                   raised>>

\* the except clause of _execute_node without its "raise ExecutionError":
\* the failure is recorded and the caller goes on
FailNodeContinue(n, error) ==
    /\ node_status' = [node_status EXCEPT ![n] = "failed"]
    /\ errors' = Put(errors, n, error)
    /\ task_pc' = [task_pc EXCEPT ![n] = "done"]
    /\ exc' = exc
    /\ main_pc' = main_pc

\* the except clause of _execute_node without "context.errors[node_id] = ..."
FailNodeUnrecorded(n, error) ==
    /\ node_status' = [node_status EXCEPT ![n] = "failed"]
    /\ errors' = errors
    /\ task_pc' = [task_pc EXCEPT ![n] = "failed"]
    /\ exc' = IF exc = NoExc THEN Exception("ExecutionError", n, error) ELSE exc
    /\ main_pc' = IF mode = "execute_parallel_batches" THEN main_pc ELSE "except"

\* except Exception as e: of _execute_node / _execute_node_streaming
\* set FAILED, record str(e), raise ExecutionError(f"Node {node_id} failed: ...").
\* In the sequential and streaming loops the exception reaches the
\* entrypoint's handler at once; in a batch it is the task's result, and
\* gather hands the first one on.
FailNode(n, error) ==
    /\ node_status' = [node_status EXCEPT ![n] = "failed"]
    /\ errors' = Put(errors, n, error)
    /\ task_pc' = [task_pc EXCEPT ![n] = "failed"]
    /\ exc' = IF exc = NoExc THEN Exception("ExecutionError", n, error) ELSE exc
    /\ main_pc' = IF mode = "execute_parallel_batches" THEN main_pc ELSE "except"

\* _execute_node without the "if not node_class" check of the registry lookup
ResolveOutcomeNoLookup(n) ==
    LET ports  == SpecInputs(TypeOf(n))
        inputs == CollectInputs(ports, edges, node_outputs, n, EmptyMap)
    IN IF ~ValidateInputs(ports, inputs)
       THEN [ok |-> FALSE,
             error |-> <<"Missing required inputs",
                         [i \in 1..Len(MissingRequired(ports, inputs)) |->
                             MissingRequired(ports, inputs)[i].name]>>]
       ELSE [ok |-> TRUE, error |-> <<>>]

\* the registry lookup, the input collection and validate_inputs
ResolveOutcome(n) ==
    IF TypeOf(n) \notin node_registry
    THEN [ok |-> FALSE, error |-> <<"Unknown node type", TypeOf(n)>>]
    ELSE LET ports  == SpecInputs(TypeOf(n))
             inputs == CollectInputs(ports, edges, node_outputs, n, EmptyMap)
         IN IF ~ValidateInputs(ports, inputs)
            THEN [ok |-> FALSE,
                  error |-> <<"Missing required inputs",
                              [i \in 1..Len(MissingRequired(ports, inputs)) |->
                                  MissingRequired(ports, inputs)[i].name]>>]
            ELSE [ok |-> TRUE, error |-> <<>>]

\* the node uses node_instance.execute_streaming
StreamsChunks(n) ==
    /\ mode = "execute_graph_streaming"
    /\ NodeSupportsStreaming(n)
    /\ HasExecuteStreaming(TypeOf(n))

\* From the registry lookup to the await of execute (or to the first
\* iteration of execute_streaming), or to the raise that ends the call.
Resolve(n) ==
    /\ task_pc[n] = "resolve"
    /\ LET r == ResolveOutcome(n)
       IN IF ~r.ok
          THEN /\ FailNode(n, r.error)
               /\ UNCHANGED <<called>>
          ELSE /\ task_pc' = [task_pc EXCEPT ![n] =
                                IF StreamsChunks(n) THEN "streaming" ELSE "executing"]
               /\ called' = [called EXCEPT ![n] = IF StreamsChunks(n) THEN @ ELSE @ + 1]
               /\ UNCHANGED <<node_status, errors, exc, main_pc>>
    /\ UNCHANGED <<graph_vars, caller_vars, ret, mode, execution_order, batches, idx, node_outputs,
                   completed_at, chunks, events, raised>>

(***************************************************************************)
(* plugins: what execute returns                                           *)
(***************************************************************************)
\* context.execution_inputs: execute_parallel_batches builds its context
\* without execution_inputs=inputs, so the field keeps its default {}
ExecutionInputs == IF mode = "execute_parallel_batches" THEN EmptyMap ELSE call_inputs

\* input_nodes: the ids of the input nodes, and input_nodes.sort().
\* NodeName lists the ids in their sorted order, whatever the order in
\* which graph.nodes holds them.
InputNodeIds == SelectSeq(NodeName, LAMBDA n : n \in NodeSet /\ TypeOf(n) = "input")

\* f"input_{ordinal}"
OrdinalKeys == <<"input_1", "input_2", "input_3", "input_4", "input_5", "input_6">>

\* InputNode.execute: the value by ordinal key, then by node id, then the
\* "value" parameter (no node of the model carries a label; data_type is
\* "text", which converts nothing)
InputValue(n) ==
    LET ordinal_key == OrdinalKeys[IndexOf(InputNodeIds, n)]
        by_ordinal  == IF ordinal_key \in DOMAIN ExecutionInputs
                       THEN ExecutionInputs[ordinal_key] ELSE Null
        by_node_id  == IF by_ordinal = Null /\ n \in DOMAIN ExecutionInputs
                       THEN ExecutionInputs[n] ELSE by_ordinal
    IN IF by_node_id = Null THEN param_value[n] ELSE by_node_id

\* str.upper on the strings of the model
Upper(text) ==
    CASE text = "hello" -> "HELLO"
      [] text = "world" -> "WORLD"
      [] text = "v" -> "V"
      [] OTHER -> text

\* TextTransformNode.execute with the default operation "uppercase":
\* text = context.get_input_value(node_id, "text") or ""
TextTransform(n) ==
    LET text == GetInputValue(edges, node_outputs, n, "text")
    IN Upper(IF text = Null THEN "" ELSE text)

\* ImmutableChatNode.execute: prev_context_key is the connected value, and
\* when that is falsy, execution_inputs.get("_context_key")
PrevContextKey(n) ==
    LET connected == GetInputValue(edges, node_outputs, n, "context_key")
    IN IF connected \notin {Null, ""} THEN connected
       ELSE IF "_context_key" \in DOMAIN ExecutionInputs
            THEN ExecutionInputs["_context_key"] ELSE Null

\* The keys of the content-addressable contexts of one conversation:
\* KeyNames[k] is the key of the messages after k exchanges (the key is a
\* hash of the message list, so the same history gives the same key).
KeyNames == <<"key_1", "key_2", "key_3", "key_4", "key_5", "key_6">>

\* store_context(prev_messages + [user, assistant]): the history of
\* prev_context_key one exchange on; a key that loads nothing starts from
\* the system prompt
KeyAfter(prev_context_key) ==
    IF IndexOf(KeyNames, prev_context_key) = 0 THEN KeyNames[1]
    ELSE KeyNames[IndexOf(KeyNames, prev_context_key) + 1]

\* str(len(new_messages)): the system prompt and two messages an exchange
MessageCounts == <<"3", "5", "7", "9", "11", "13", "15">>

\* "if not x": None and the empty string are falsy
Falsy(x) == x \in {Null, ""}

\* message = context.get_input_value(node_id, "message")
Message(n) == GetInputValue(edges, node_outputs, n, "message")

\* "Error: No message provided"
NoMessageText == "Error: No message provided"

\* f"Error: {str(e)}" for the exception the language model or the context
\* store raised
ErrorText == "Error: connection refused"

\* ImmutableChatNode.execute: without a message the error mapping with
\* prev_context_key or "empty"; else either the response with the key of
\* the stored context and the number of its messages, or, when the
\* language model or the store raised, the mapping of "except Exception"
\* with prev_context_key or "error".  The node does not raise.
ImmutableChatResults(n) ==
    LET prev == PrevContextKey(n)
    IN IF Falsy(Message(n))
       THEN {[response |-> NoMessageText,
              context_key |-> IF Falsy(prev) THEN "empty" ELSE prev,
              message_count |-> "0"]}
       ELSE {[response |-> "v",
              context_key |-> KeyAfter(prev),
              message_count |-> MessageCounts[IndexOf(KeyNames, KeyAfter(prev))]],
             [response |-> ErrorText,
              context_key |-> IF Falsy(prev) THEN "error" ELSE prev,
              message_count |-> "0"]}

\* SmartChatNode.execute: without a message the error mapping with
\* context_id or "error"; else either the response with the id of the
\* conversation, or the mapping of "except Exception" with the context_id
\* the code holds at the raise: the connected one, the one create_context
\* had just returned, or "error" when create_context itself raised.
SmartChatResults(n) ==
    LET context_id == GetInputValue(edges, node_outputs, n, "context_id")
    IN IF Falsy(Message(n))
       THEN {[response |-> NoMessageText,
              context_id |-> IF Falsy(context_id) THEN "error" ELSE context_id]}
       ELSE {[response |-> "v", context_id |-> "v"]}
            \cup {[response |-> ErrorText, context_id |-> c] :
                     c \in IF Falsy(context_id) THEN {"v", "error"} ELSE {context_id}}

\* The mappings execute may return.  The input and text nodes compute their
\* output; a chat node returns the strings a language model gave it, or
\* the error mapping it builds itself.
ExecuteResults(n) ==
    CASE TypeOf(n) = "input" -> {[k \in OutputKeys("input") |-> InputValue(n)]}
      [] TypeOf(n) = "text_transform" ->
            {[k \in OutputKeys("text_transform") |-> TextTransform(n)]}
      [] TypeOf(n) = "immutable_chat" -> ImmutableChatResults(n)
      [] TypeOf(n) = "smart_chat" -> SmartChatResults(n)
      [] OTHER -> {[k \in OutputKeys(TypeOf(n)) |-> "v"]}

\* an _execute_node that drops what execute returned
StoreOutputsSkipped(outs, n, outputs) == outs

\* set_node_output for every returned port: merged into the node's mapping
StoreOutputs(outs, n, outputs) ==
    LET old == IF n \in DOMAIN outs THEN outs[n] ELSE EmptyMap
    IN Put(outs, n, [k \in DOMAIN old \cup DOMAIN outputs |->
                        IF k \in DOMAIN outputs THEN outputs[k] ELSE old[k]])

\* _execute_node_streaming without execute_streaming: "Yield the complete
\* output as a single chunk" when the outputs hold a response
YieldsResponse(n, outputs) ==
    /\ mode = "execute_graph_streaming"
    /\ NodeSupportsStreaming(n)
    /\ ~HasExecuteStreaming(TypeOf(n))
    /\ "response" \in DOMAIN outputs

\* await node_instance.execute(...) returns: the outputs are stored and the
\* status is set COMPLETED (after the response chunk, where one is yielded)
ExecuteReturn(n) ==
    /\ task_pc[n] = "executing"
    /\ LoopFreeFor(n)
    /\ \E outputs \in ExecuteResults(n) :
         /\ node_outputs' = StoreOutputs(node_outputs, n, outputs)
         /\ IF YieldsResponse(n, outputs)
            THEN /\ events' = Append(events,
                                ChunkEvent(n, outputs["response"]))
                 /\ task_pc' = [task_pc EXCEPT ![n] = "yielded"]
                 /\ node_status' = node_status
            ELSE /\ events' = events
                 /\ task_pc' = [task_pc EXCEPT ![n] = "done"]
                 /\ node_status' = [node_status EXCEPT ![n] = "completed"]
    /\ UNCHANGED <<graph_vars, caller_vars, ret, mode, main_pc, execution_order, batches, idx,
                   errors, completed_at, called, chunks, exc, raised>>

\* the consumer asks for the next event after the response chunk
ResumeAfterChunk(n) ==
    /\ task_pc[n] = "yielded"
    /\ task_pc' = [task_pc EXCEPT ![n] = "done"]
    /\ node_status' = [node_status EXCEPT ![n] = "completed"]
    /\ UNCHANGED <<graph_vars, caller_vars, ret, mode, main_pc, execution_order, batches, idx,
                   node_outputs, errors, completed_at, called, chunks, events, exc,
                   raised>>

\* await node_instance.execute(...) raises
ExecuteRaise(n) ==
    /\ task_pc[n] = "executing"
    /\ LoopFreeFor(n)
    /\ FailNode(n, <<"execute raised", TypeOf(n)>>)
    /\ UNCHANGED <<graph_vars, caller_vars, ret, mode, execution_order, batches, idx, node_outputs,
                   completed_at, called, chunks, events, raised>>

\* response chunks the streams of one run may yield
MaxChunks == 2

\* the response chunks the streams of the run have yielded so far
YieldedChunks ==
    {mi \in NodeSet \X (1..MaxChunks) :
        /\ mi[2] <= Len(chunks[mi[1]])
        /\ chunks[mi[1]][mi[2]] \in ResponseChunks}

\* a loop that hands the newest chunk to the consumer ahead of the chunks
\* it has handed over before
StreamChunkLatestFirst(n) ==
    /\ task_pc[n] = "streaming"
    /\ ~Falsy(Message(n))
    /\ Cardinality(YieldedChunks) < MaxChunks
    /\ LET chunk == ResponseStream[Len(chunks[n]) + 1]
           earlier == Len(chunks[n])
       IN /\ chunks' = [chunks EXCEPT ![n] = Append(@, chunk)]
          /\ events' = SubSeq(events, 1, Len(events) - earlier)
                        \o <<ChunkEvent(n, chunk)>>
                        \o SubSeq(events, Len(events) - earlier + 1, Len(events))
    /\ UNCHANGED <<graph_vars, caller_vars, ret, mode, main_pc, execution_order, batches, idx,
                   task_pc, node_status, node_outputs, errors, completed_at, called,
                   exc, raised>>

\* async for chunk in node_instance.execute_streaming(...): yield chunk
\* (the next piece of the language model's response; there is none
\* without a message)
StreamChunk(n) ==
    /\ task_pc[n] = "streaming"
    /\ ~Falsy(Message(n))
    /\ Cardinality(YieldedChunks) < MaxChunks
    /\ LET chunk == ResponseStream[Len(chunks[n]) + 1]
       IN /\ chunks' = [chunks EXCEPT ![n] = Append(@, chunk)]
          /\ events' = Append(events, ChunkEvent(n, chunk))
    /\ UNCHANGED <<graph_vars, caller_vars, ret, mode, main_pc, execution_order, batches, idx,
                   task_pc, node_status, node_outputs, errors, completed_at, called,
                   exc, raised>>

\* execute_streaming yields an error text as its last chunk: "Error: No
\* message provided" and return, or f"Error: {str(e)}" from its "except
\* Exception" when the language model raised, before or amid its chunks
StreamError(n) ==
    /\ task_pc[n] = "streaming"
    /\ LET chunk == IF Falsy(Message(n)) THEN NoMessageText ELSE ErrorText
       IN /\ chunks' = [chunks EXCEPT ![n] = Append(@, chunk)]
          /\ events' = Append(events, ChunkEvent(n, chunk))
    /\ task_pc' = [task_pc EXCEPT ![n] = "stream_error"]
    /\ UNCHANGED <<graph_vars, caller_vars, ret, mode, main_pc, execution_order, batches, idx,
                   node_status, node_outputs, errors, completed_at, called,
                   exc, raised>>

\* the stream is exhausted: "Get final outputs after streaming" calls execute
StreamEnd(n) ==
    /\ \/ task_pc[n] = "streaming" /\ ~Falsy(Message(n))
       \/ task_pc[n] = "stream_error"
    /\ task_pc' = [task_pc EXCEPT ![n] = "executing"]
    /\ called' = [called EXCEPT ![n] = @ + 1]
    /\ UNCHANGED <<graph_vars, caller_vars, ret, mode, main_pc, execution_order, batches, idx,
                   node_status, node_outputs, errors, completed_at, chunks, events,
                   exc, raised>>

\* execute_streaming raises
StreamRaise(n) ==
    /\ task_pc[n] = "streaming"
    /\ FailNode(n, <<"execute_streaming raised", TypeOf(n)>>)
    /\ UNCHANGED <<graph_vars, caller_vars, ret, mode, execution_order, batches, idx, node_outputs,
                   completed_at, called, chunks, events, raised>>

\* a streaming loop that moves on without yielding node_complete
NodeDoneSilent ==
    /\ mode \in LoopModes
    /\ main_pc = "await"
    /\ CurrentNode \in NodeSet
    /\ task_pc[CurrentNode] = "done"
    /\ idx' = idx + 1
    /\ main_pc' = "loop"
    /\ UNCHANGED <<graph_vars, caller_vars, ret, mode, execution_order, batches, task_pc,
                   node_status, node_outputs, errors, completed_at, called, chunks,
                   exc, raised, events>>

\* _execute_node returned to the sequential loop; the streaming loop yields
\* the node_complete event
NodeDone ==
    /\ mode \in LoopModes
    /\ main_pc = "await"
    /\ CurrentNode \in NodeSet
    /\ task_pc[CurrentNode] = "done"
    /\ idx' = idx + 1
    /\ main_pc' = "loop"
    /\ events' = IF mode = "execute_graph_streaming"
                 THEN Append(events,
                        Event("node_complete", CurrentNode, node_status[CurrentNode],
                              IF CurrentNode \in DOMAIN node_outputs
                              THEN node_outputs[CurrentNode] ELSE EmptyMap,
                              NoExc))
                 ELSE events
    /\ UNCHANGED <<graph_vars, caller_vars, ret, mode, execution_order, batches, task_pc,
                   node_status, node_outputs, errors, completed_at, called, chunks,
                   exc, raised>>

\* a wait that returns on the first finished task (asyncio.wait with
\* FIRST_COMPLETED in the place of gather)
GatherReturnFirst ==
    /\ mode = "execute_parallel_batches"
    /\ main_pc = "gather"
    /\ \E n \in Range(CurrentBatch) : task_pc[n] = "done"
    /\ idx' = idx + 1
    /\ main_pc' = "loop"
    /\ UNCHANGED <<graph_vars, caller_vars, ret, mode, execution_order, batches, task_pc,
                   node_status, node_outputs, errors, completed_at, called, chunks,
                   events, exc, raised>>

\* await asyncio.gather(*tasks) returns: every task of the batch is done
GatherReturn ==
    /\ mode = "execute_parallel_batches"
    /\ main_pc = "gather"
    /\ \A n \in Range(CurrentBatch) : task_pc[n] = "done"
    /\ idx' = idx + 1
    /\ main_pc' = "loop"
    /\ UNCHANGED <<graph_vars, caller_vars, ret, mode, execution_order, batches, task_pc,
                   node_status, node_outputs, errors, completed_at, called, chunks,
                   events, exc, raised>>

\* await asyncio.gather(*tasks) raises the first exception of a task.  The
\* wake-up is queued behind the first steps of the batch's tasks; the tasks
\* that are awaiting their execute are not cancelled.
GatherRaise ==
    /\ mode = "execute_parallel_batches"
    /\ main_pc = "gather"
    /\ exc # NoExc
    /\ \A n \in Range(CurrentBatch) : task_pc[n] # "ready"
    /\ LoopFree
    /\ main_pc' = "except"
    /\ UNCHANGED <<graph_vars, caller_vars, ret, mode, execution_order, batches, idx, task_pc,
                   node_status, node_outputs, errors, completed_at, called, chunks,
                   events, exc, raised>>

PlanLength == IF mode = "execute_parallel_batches" THEN Len(batches)
              ELSE Len(execution_order)

\* the loop is through: completed_at is set and the context returned (the
\* streaming entrypoint yields execution_complete and ends)
Finish ==
    /\ main_pc = "loop"
    /\ idx = PlanLength
    /\ completed_at' = TRUE
    /\ main_pc' = "returned"
    /\ events' = IF mode = "execute_graph_streaming"
                 THEN Append(events,
                        Event("execution_complete", "", "completed", node_outputs, NoExc))
                 ELSE events
    /\ UNCHANGED <<graph_vars, caller_vars, ret, mode, execution_order, batches, idx, task_pc,
                   node_status, node_outputs, errors, called, chunks, exc, raised>>

\* except Exception as e: of the entrypoint.  completed_at is set; the
\* sequential and the parallel entrypoint raise ExecutionError, the
\* streaming one first yields execution_error.
Handler ==
    /\ main_pc = "except"
    /\ completed_at' = TRUE
    /\ IF mode = "execute_graph_streaming"
       THEN /\ events' = Append(events, Event("execution_error", "", "", EmptyMap, exc))
            /\ main_pc' = "error_yielded"
            /\ raised' = raised
       ELSE /\ events' = events
            /\ main_pc' = "raised"
            /\ raised' = Exception("ExecutionError", exc.node, exc.cause)
    /\ UNCHANGED <<graph_vars, caller_vars, ret, mode, execution_order, batches, idx, task_pc,
                   node_status, node_outputs, errors, called, chunks, exc>>

\* the consumer resumes the generator after execution_error:
\* raise ExecutionError(f"Graph streaming execution failed: {e}") from e
StreamingRaise ==
    /\ main_pc = "error_yielded"
    /\ main_pc' = "raised"
    /\ raised' = Exception("ExecutionError", exc.node, exc.cause)
    /\ UNCHANGED <<graph_vars, caller_vars, ret, mode, execution_order, batches, idx, task_pc,
                   node_status, node_outputs, errors, completed_at, called, chunks,
                   events, exc>>

(***************************************************************************)
(* The executor specification: a graph, its node types and an entrypoint   *)
(* are drawn, and the run is followed step by step.                        *)
(***************************************************************************)
\* edges of a graph that is run
MaxRunEdges == 2

\* the port an edge of a run graph leaves its source by: the type's output
MainOutput(type) == IF type \in {"smart_chat", "immutable_chat"} THEN "response"
                    ELSE "output"

\* the port an edge of a run graph feeds: the target type's first input
\* port ("text" when the type declares none)
FedPort(type) == IF SpecInputs(type) = <<>> THEN "text" ELSE SpecInputs(type)[1].name

\* The node types of a run.  The chat types differ from text_transform
\* where the streaming entrypoint treats them apart and where their execute
\* suspends beside the tasks of its batch, so they are drawn in streaming
\* and in parallel mode, in the place of text_transform.
RunTypes(m) ==
    CASE m = "execute_graph_streaming" -> NodeTypes \ {"text_transform"}
      [] m = "execute_parallel_batches" -> {"input", "smart_chat", "nope"}
      [] OTHER -> {"input", "text_transform", "nope"}

\* The pairs of ids an edge of a run graph may join: an earlier id to a
\* later one, and B back to A (which closes a cycle with A -> B, and leaves
\* the insertion order when alone).  execute_graph_streaming and
\* execute_graph_with_context plan with the same get_execution_order as
\* execute_graph: their graphs are drawn as chains, each id joined to the
\* next.
RunPairs(m) ==
    {<<NodeName[ij[1]], NodeName[ij[2]]>> :
        ij \in {x \in (1..MaxNodes) \X (1..MaxNodes) :
                   IF m \in {"execute_graph_streaming", "execute_graph_with_context"}
                   THEN x[2] = x[1] + 1
                   ELSE x[1] < x[2]}}
    \cup {<<NodeName[2], NodeName[1]>>}

RunEdges(m, types) ==
    LET type(n) == IF n \in DOMAIN types THEN types[n] ELSE ""
    IN {EdgeData(pr[1], MainOutput(type(pr[1])), pr[2], FedPort(type(pr[2]))) :
            pr \in RunPairs(m)}

\* The "value" parameters of a run graph: a string on every input node, or
\* null or the empty string on the first of them (other nodes do not read
\* the parameter).
RunValues(types) ==
    LET input_ids == {n \in DOMAIN types : types[n] = "input"}
        first(n)  == \A m \in input_ids : IndexOf(NodeName, n) <= IndexOf(NodeName, m)
        strings   == [n \in DOMAIN types |-> IF n \in input_ids THEN "hello" ELSE Null]
    IN {strings}
       \cup {[strings EXCEPT ![n] = v] : n \in {m \in input_ids : first(m)},
                                         v \in {Null, ""}}

\* The null value is drawn for execute_graph; the other entrypoints hand the
\* same context to the same InputNode.execute.
ModeValues(m, types) ==
    IF m = "execute_graph" THEN RunValues(types)
    ELSE {f \in RunValues(types) :
            \A n \in DOMAIN types : types[n] = "input" => f[n] # Null}

\* the inputs of a run: the callers of the model's runs pass none
RunInputs == {EmptyMap}

InitRun ==
    /\ mode \in Modes
    /\ \E n \in 0..MaxNodes : nodes = NodePrefix(n)
    /\ node_type \in [NodeSet -> RunTypes(mode)]
    /\ streaming \in IF mode = "execute_graph_streaming"
                     THEN {{}, NodeSet} ELSE {{}}
    /\ \E k \in 0..MaxRunEdges : edges \in [1..k -> RunEdges(mode, node_type)]
    /\ param_value \in ModeValues(mode, node_type)
    /\ call_inputs \in RunInputs
    /\ ret = NoRet
    /\ NoCaller
    /\ main_pc = "idle"
    /\ execution_order = <<>>
    /\ batches = <<>>
    /\ idx = 0
    /\ task_pc = [n \in NodeSet |-> "none"]
    /\ node_status = EmptyMap
    /\ node_outputs = EmptyMap
    /\ errors = EmptyMap
    /\ completed_at = FALSE
    /\ called = [n \in NodeSet |-> 0]
    /\ chunks = [n \in NodeSet |-> <<>>]
    /\ events = <<>>
    /\ exc = NoExc
    /\ raised = NoExc

Next ==
    \/ Enter
    \/ PlanOrder
    \/ PlanBatches
    \/ LaunchBatch
    \/ \E n \in NodeSet : StartNode(n)
    \/ \E n \in NodeSet : TaskStart(n)
    \/ \E n \in NodeSet : Resolve(n)
    \/ \E n \in NodeSet : ExecuteReturn(n)
    \/ \E n \in NodeSet : ExecuteRaise(n)
    \/ \E n \in NodeSet : ResumeAfterChunk(n)
    \/ \E n \in NodeSet : StreamChunk(n)
    \/ \E n \in NodeSet : StreamError(n)
    \/ \E n \in NodeSet : StreamEnd(n)
    \/ \E n \in NodeSet : StreamRaise(n)
    \/ NodeDone
    \/ GatherReturn
    \/ GatherRaise
    \/ Finish
    \/ Handler
    \/ StreamingRaise

Spec == InitRun /\ [][Next]_vars

(***************************************************************************)
(* Graph notions the claims are stated with, defined on the edge list      *)
(* itself and not through the planner's code.                              *)
(***************************************************************************)
EdgeIndices == 1..Len(edges)

\* the nodes an edge leads from into n
Preds(n) == {edges[i].source_node : i \in {j \in EdgeIndices : edges[j].target_node = n}}

\* every edge joins two nodes of the graph
NoDanglingEdge ==
    \A i \in EdgeIndices :
        edges[i].source_node \in NodeSet /\ edges[i].target_node \in NodeSet

HasDuplicateEdge ==
    \E i, j \in EdgeIndices : i < j /\ Signature(edges[i]) = Signature(edges[j])

\* x reaches y along at least one edge: paths are extended edge by edge
RECURSIVE ReachFrom(_, _)
ReachFrom(frontier, seen) ==
    LET next == {edges[i].target_node :
                    i \in {j \in EdgeIndices : edges[j].source_node \in frontier}}
    IN IF next \subseteq seen THEN seen ELSE ReachFrom(next \ seen, seen \cup next)

Reaches(x, y) == y \in ReachFrom({x}, {})

HasCycle == \E n \in NodeSet : Reaches(n, n)

Position(seq, x) == IndexOf(seq, x)

\* the nodes of batches 1..k-1
Earlier(bs, k) == UNION {Range(bs[j]) : j \in 1..(k - 1)}

(***************************************************************************)
(* C1: for every graph that passes validation, get_execution_order returns *)
(* an order in which every edge's source node stands before its target     *)
(* node.                                                                   *)
(***************************************************************************)
C1_SourceBeforeTarget ==
    (ret.op = "get_execution_order" /\ NoDanglingEdge /\ ~HasDuplicateEdge /\ ~HasCycle)
    => /\ ret.raised = "none"
       /\ \A i \in EdgeIndices :
            /\ Position(ret.order, edges[i].source_node) > 0
            /\ Position(ret.order, edges[i].source_node)
                 < Position(ret.order, edges[i].target_node)

\* a valid graph of three edges whose order is not the insertion order
C1_Witness ==
    /\ ret.op = "get_execution_order"
    /\ ret.raised = "none"
    /\ Len(edges) = 3
    /\ ret.order # nodes
    /\ Len(ret.order) = 3

(***************************************************************************)
(* C6: on an acyclic graph whose edges join existing nodes,                *)
(* get_parallel_batches returns non-empty batches that hold every node     *)
(* exactly once, batch k being exactly the nodes outside batches 1..k-1    *)
(* whose predecessors all lie in batches 1..k-1; the diamond gives         *)
(* {A}, {B,C}, {D}.                                                        *)
(***************************************************************************)
C6_BatchesAreWaves ==
    (ret.op = "get_parallel_batches" /\ NoDanglingEdge /\ ~HasCycle)
    => /\ ret.raised = "none"
       /\ \A k \in 1..Len(ret.batches) :
            /\ ret.batches[k] # <<>>
            /\ Range(ret.batches[k]) =
                 {n \in NodeSet \ Earlier(ret.batches, k) :
                    Preds(n) \subseteq Earlier(ret.batches, k)}
       /\ Len(Flatten(ret.batches)) = Len(nodes)
       /\ Range(Flatten(ret.batches)) = NodeSet
       /\ (nodes = DiamondNodes /\ edges = DiamondEdges)
            => /\ Len(ret.batches) = 3
               /\ Range(ret.batches[1]) = {"A"}
               /\ Range(ret.batches[2]) = {"B", "C"}
               /\ Range(ret.batches[3]) = {"D"}

\* the diamond's batches have been computed
C6_Witness ==
    /\ ret.op = "get_parallel_batches"
    /\ nodes = DiamondNodes /\ edges = DiamondEdges
    /\ Len(ret.batches) = 3

(***************************************************************************)
(* C7: when the edges, all between existing nodes, hold a directed cycle   *)
(* (a self-loop included), validate returns is_valid = false with an error *)
(* that mentions cycles, and get_execution_order raises                    *)
(* GraphValidationError.                                                   *)
(***************************************************************************)
C7_CycleRejected ==
    (ret.op \in {"validate", "get_execution_order"} /\ NoDanglingEdge /\ HasCycle)
    => /\ ret.op = "validate"
            => ~ret.is_valid /\ CycleError \in Range(ret.errors)
       /\ ret.op = "get_execution_order"
            => ret.raised = "GraphValidationError" /\ ret.order = <<>>

\* a self-loop was validated
C7_Witness ==
    /\ ret.op = "validate"
    /\ NoDanglingEdge
    /\ \E i \in EdgeIndices : edges[i].source_node = edges[i].target_node
    /\ ~ret.is_valid

(***************************************************************************)
(* C8: validate never raises; for an edge whose source_node or target_node *)
(* is no node of the graph it returns is_valid = false, and the error list *)
(* has one entry per missing endpoint, naming the missing node id.         *)
(***************************************************************************)
MissingSources(x) == {i \in EdgeIndices : edges[i].source_node = x}
MissingTargets(x) == {i \in EdgeIndices : edges[i].target_node = x}

ErrorCount(errs, kind, x) ==
    Cardinality({i \in 1..Len(errs) : errs[i].kind = kind /\ errs[i].node = x})

C8_DanglingReported ==
    ret.op = "validate"
    => /\ ret.raised = "none"
       /\ ~NoDanglingEdge => ~ret.is_valid
       /\ \A x \in Ids \ NodeSet :
            /\ ErrorCount(ret.errors, "non-existent source node", x)
                 = Cardinality(MissingSources(x))
            /\ ErrorCount(ret.errors, "non-existent target node", x)
                 = Cardinality(MissingTargets(x))
       /\ \A i \in 1..Len(ret.errors) :
            ret.errors[i].kind \in {"non-existent source node", "non-existent target node"}
            => ret.errors[i].node \notin NodeSet

\* an edge with both endpoints missing was validated
C8_Witness ==
    /\ ret.op = "validate"
    /\ \E i \in EdgeIndices :
         /\ edges[i].source_node \notin NodeSet
         /\ edges[i].target_node \notin NodeSet
         /\ edges[i].source_node # edges[i].target_node
    /\ Len(ret.errors) >= 2

(***************************************************************************)
(* Run notions the executor claims are stated with.                        *)
(***************************************************************************)
StatusOf(n) == IF n \in DOMAIN node_status THEN node_status[n] ELSE "none"

\* the node has not been touched by the run
Untouched(n) == StatusOf(n) = "pending" /\ called[n] = 0

\* the order nodes are started in: the execution order, or the batches laid
\* end to end
RunOrder == IF mode = "execute_parallel_batches" THEN Flatten(batches)
            ELSE execution_order

LaterInOrder(n) ==
    {m \in NodeSet : Position(RunOrder, n) > 0
                     /\ Position(RunOrder, m) > Position(RunOrder, n)}

\* the batch (1-based) a node stands in, 0 when in none
BatchOf(n) ==
    LET ks == {k \in 1..Len(batches) : n \in Range(batches[k])}
    IN IF ks = {} THEN 0 ELSE CHOOSE k \in ks : TRUE

LaterBatches(n) == {m \in NodeSet : BatchOf(n) > 0 /\ BatchOf(m) > BatchOf(n)}

ErrorKind(n) == IF n \in DOMAIN errors THEN errors[n][1] ELSE "none"

(***************************************************************************)
(* C2: in sequential execution, when a node's execute raises, the node is  *)
(* FAILED, errors[node_id] holds the exception text, execute_graph ends by *)
(* raising ExecutionError (it never returns), and every node later in the  *)
(* execution order, every downstream node among them, is still PENDING     *)
(* with its execute never called; the failed node's execute was called     *)
(* once (no retry).                                                        *)
(***************************************************************************)
C2_SequentialFailureStops ==
    mode = "execute_graph"
    => \A n \in NodeSet :
         ErrorKind(n) = "execute raised"
         => /\ StatusOf(n) = "failed"
            /\ errors[n] = <<"execute raised", TypeOf(n)>>
            /\ called[n] = 1
            /\ main_pc \in {"except", "raised"}
            /\ main_pc = "raised" => raised = Exception("ExecutionError", n, errors[n])
            /\ \A m \in LaterInOrder(n) : Untouched(m)
            /\ \A m \in NodeSet : Reaches(n, m) => Untouched(m)

\* execute_graph has raised after the execute of a node with a downstream
\* node raised, an earlier node having completed
C2_Witness ==
    /\ mode = "execute_graph"
    /\ main_pc = "raised"
    /\ \E n, m, k \in NodeSet :
         /\ ErrorKind(n) = "execute raised"
         /\ Reaches(n, m)
         /\ StatusOf(m) = "pending"
         /\ StatusOf(k) = "completed"

(***************************************************************************)
(* C3: in every mode a node's status only moves PENDING -> RUNNING ->      *)
(* COMPLETED or PENDING -> RUNNING -> FAILED: a COMPLETED or FAILED node   *)
(* never changes status again, no node goes from PENDING straight to a     *)
(* terminal status, and no node ever has the status SKIPPED.               *)
(***************************************************************************)
StatusStep(s, t) ==
    \/ t = s
    \/ s = "none" /\ t = "pending"
    \/ s = "pending" /\ t = "running"
    \/ s = "running" /\ t \in {"completed", "failed"}

C3_StatusMachine ==
    [][\A n \in NodeSet :
         /\ n \in DOMAIN node_status => n \in DOMAIN node_status'
         /\ StatusStep(StatusOf(n),
                       IF n \in DOMAIN node_status' THEN node_status'[n] ELSE "none")
         /\ n \in DOMAIN node_status'
              => node_status'[n] \in {"pending", "running", "completed", "failed"}]_vars

\* a run has ended with one node COMPLETED, one FAILED and one PENDING
C3_Witness ==
    /\ main_pc = "raised"
    /\ \E n, m, k \in NodeSet :
         /\ StatusOf(n) = "completed"
         /\ StatusOf(m) = "failed"
         /\ StatusOf(k) = "pending"

(***************************************************************************)
(* C4: in every execution mode, when the graph holds a cycle, a dangling   *)
(* edge or a duplicate edge, the run fails before any node runs: it does   *)
(* not return, no node leaves PENDING and no execute is called.            *)
(***************************************************************************)
InvalidGraph == HasCycle \/ ~NoDanglingEdge \/ HasDuplicateEdge

C4_InvalidGraphNeverRuns ==
    InvalidGraph
    => /\ main_pc # "returned"
       /\ \A n \in NodeSet : StatusOf(n) \in {"none", "pending"} /\ called[n] = 0

(***************************************************************************)
(* C5: in parallel-batch execution no node of a batch enters RUNNING       *)
(* before every node of the batches before it is COMPLETED; when a node of *)
(* a batch fails, execute_parallel_batches does not return, what it raises *)
(* is ExecutionError, and no node of a later batch ever leaves PENDING,    *)
(* however the batch's tasks interleave.                                   *)
(***************************************************************************)
C5_BatchesInOrder ==
    mode = "execute_parallel_batches"
    => /\ \A n \in NodeSet :
            (BatchOf(n) > 0 /\ StatusOf(n) # "pending")
            => \A m \in Earlier(batches, BatchOf(n)) : StatusOf(m) = "completed"
       /\ \A n \in NodeSet :
            StatusOf(n) = "failed"
            => /\ main_pc \in {"gather", "except", "raised"}
               /\ main_pc = "raised" => raised.type = "ExecutionError"
               /\ \A m \in LaterBatches(n) : Untouched(m)

\* the first node of a two-node batch failed, its peer ran after it, the
\* call has raised, and a node of the next batch is still PENDING
C5_Witness ==
    /\ mode = "execute_parallel_batches"
    /\ main_pc = "raised"
    /\ \E n, m, k \in NodeSet :
         /\ n # m /\ BatchOf(n) = 1 /\ BatchOf(m) = 1 /\ BatchOf(k) = 2
         /\ IndexOf(nodes, n) < IndexOf(nodes, m)
         /\ StatusOf(n) = "failed"
         /\ StatusOf(m) = "completed"
         /\ StatusOf(k) = "pending"

(***************************************************************************)
(* C9: a node with a required input port that no edge feeds and that has   *)
(* no default fails when it is run: ExecutionError is raised with a        *)
(* message naming the port, the status ends FAILED and is never COMPLETED, *)
(* errors[node_id] is recorded, and the node's execute is never called.    *)
(***************************************************************************)
Unfed(n, p) ==
    ~\E i \in EdgeIndices : edges[i].target_node = n /\ edges[i].target_port = p

\* the required, default-less ports of n that no edge feeds
UnfedRequired(n) ==
    {port \in Range(SpecInputs(TypeOf(n))) :
        port.required /\ port.default = Null /\ Unfed(n, port.name)}

C9_MissingRequiredInput ==
    \A n \in NodeSet :
        (TypeOf(n) \in node_registry /\ UnfedRequired(n) # {})
        => /\ called[n] = 0
           /\ chunks[n] = <<>>
           /\ StatusOf(n) # "completed"
           /\ task_pc[n] \notin {"executing", "streaming", "stream_error", "yielded", "done"}
           /\ task_pc[n] = "failed"
                => /\ StatusOf(n) = "failed"
                   /\ ErrorKind(n) = "Missing required inputs"
                   /\ \A port \in UnfedRequired(n) : port.name \in Range(errors[n][2])
                   /\ (mode # "execute_parallel_batches" \/ exc.node = n)
                        => exc = Exception("ExecutionError", n, errors[n])

\* a text_transform node without an edge into its "text" port was run after
\* an earlier node had completed
C9_Witness ==
    \E n, k \in NodeSet :
        /\ TypeOf(n) = "text_transform"
        /\ Unfed(n, "text")
        /\ task_pc[n] = "failed"
        /\ errors[n] = <<"Missing required inputs", <<"text">>>>
        /\ StatusOf(k) = "completed"

(***************************************************************************)
(* C10, as stated: when a node's node_type is not in the registry, in any  *)
(* mode, the node is FAILED, errors[node_id] records "Unknown node type",  *)
(* its execute is not called and no node later in the order is run.        *)
(***************************************************************************)
UnknownTypeFailed(n) ==
    /\ TypeOf(n) \notin node_registry
    /\ task_pc[n] = "failed"

C10_NoLaterNodeRuns ==
    \A n \in NodeSet :
        UnknownTypeFailed(n)
        => /\ StatusOf(n) = "failed"
           /\ errors[n] = <<"Unknown node type", TypeOf(n)>>
           /\ called[n] = 0
           /\ main_pc # "returned"
           /\ \A m \in LaterInOrder(n) : Untouched(m)

(***************************************************************************)
(* C10, amended: when a node's node_type is not in the registry, in any    *)
(* mode, the node is FAILED, errors[node_id] records "Unknown node type",  *)
(* its execute is never called and the run does not return; in sequential  *)
(* and streaming mode no node later in the execution order is run, in      *)
(* parallel-batch mode no node of a later batch is run (the other nodes of *)
(* the failing node's own batch are still run).                            *)
(***************************************************************************)
C10_UnknownTypeAborts ==
    \A n \in NodeSet :
        TypeOf(n) \notin node_registry
        => /\ called[n] = 0
           /\ chunks[n] = <<>>
           /\ StatusOf(n) # "completed"
           /\ UnknownTypeFailed(n)
                => /\ StatusOf(n) = "failed"
                   /\ errors[n] = <<"Unknown node type", TypeOf(n)>>
                   /\ main_pc # "returned"
                   /\ mode # "execute_parallel_batches"
                        => \A m \in LaterInOrder(n) : Untouched(m)
                   /\ mode = "execute_parallel_batches"
                        => \A m \in LaterBatches(n) : Untouched(m)

\* in a batch an unknown-type node failed, a peer behind it in the batch
\* was run to COMPLETED, and a node of the next batch is still PENDING
C10_Witness ==
    /\ mode = "execute_parallel_batches"
    /\ main_pc = "raised"
    /\ \E n, m, k \in NodeSet :
         /\ UnknownTypeFailed(n)
         /\ m \in LaterInOrder(n) /\ BatchOf(m) = BatchOf(n)
         /\ StatusOf(m) = "completed"
         /\ k \in LaterBatches(n)
         /\ StatusOf(k) = "pending"

(***************************************************************************)
(* C11: when a node fails during execute_graph_streaming, the events end   *)
(* with exactly one execution_error event that carries the error, and the  *)
(* sequence then finishes without raising to its consumer.                 *)
(***************************************************************************)
ErrorEvents == {i \in 1..Len(events) : events[i].type = "execution_error"}

C11_ErrorEventEndsQuietly ==
    (mode = "execute_graph_streaming" /\ \E n \in NodeSet : StatusOf(n) = "failed")
    => /\ main_pc # "raised"
       /\ main_pc = "error_yielded"
            => /\ ErrorEvents = {Len(events)}
               /\ events[Len(events)].error = exc


(***************************************************************************)
(* A normal return of execute_graph.                                       *)
(***************************************************************************)
Returned(m) == mode = m /\ main_pc = "returned"

\* C12: when execute_graph returns normally, every node of the graph is
\* COMPLETED, errors is empty, completed_at is set and node_outputs[n] is
\* the mapping that n's execute returned; an input node with the value
\* "hello" stores "hello", and a text_transform fed "hello" stores "HELLO".
C12_NormalReturn ==
    Returned("execute_graph")
    => /\ \A n \in NodeSet :
             /\ StatusOf(n) = "completed"
             /\ n \in DOMAIN node_outputs
             /\ node_outputs[n] \in ExecuteResults(n)
             /\ (TypeOf(n) = "input" /\ param_value[n] = "hello")
                    => node_outputs[n] = [k \in {"output"} |-> "hello"]
             /\ (/\ TypeOf(n) = "text_transform"
                 /\ GetInputValue(edges, node_outputs, n, "text") = "hello")
                    => node_outputs[n] = [k \in {"output"} |-> "HELLO"]
       /\ DOMAIN node_outputs = NodeSet
       /\ errors = EmptyMap
       /\ completed_at

\* Input("hello") -> TextTransform(uppercase) has returned
C12_Witness ==
    /\ Returned("execute_graph")
    /\ nodes = <<"A", "B">>
    /\ TypeOf("A") = "input" /\ TypeOf("B") = "text_transform"
    /\ param_value["A"] = "hello"
    /\ \E i \in EdgeIndices :
          edges[i] = EdgeData("A", "output", "B", "text")
    /\ node_outputs["B"]["output"] = "HELLO"
    /\ StatusOf("A") = "completed" /\ StatusOf("B") = "completed"

(***************************************************************************)
(* The execution order of a validated graph.                               *)
(***************************************************************************)
\* C13: for every graph that passes validation, and in particular every
\* graph with zero edges, get_execution_order returns every node id of the
\* graph exactly once and no other value.
C13_OrderIsPermutation ==
    ret.op = "get_execution_order"
    => /\ edges = <<>> => ret.raised = "none"
       /\ Validate(nodes, edges).is_valid => ret.raised = "none"
       /\ ret.raised = "none"
            => /\ Len(ret.order) = Len(nodes)
               /\ Range(ret.order) = NodeSet

\* the order of a graph of MaxNodes nodes and no edge
C13_Witness ==
    /\ ret.op = "get_execution_order"
    /\ ret.raised = "none"
    /\ edges = <<>>
    /\ Len(nodes) = MaxNodes
    /\ Len(ret.order) = MaxNodes

(***************************************************************************)
(* What a raised ExecutionError names.                                     *)
(***************************************************************************)
RaisedExecutionError ==
    /\ mode \in Modes \ {"execute_graph_streaming"}
    /\ main_pc = "raised"
    /\ raised.type = "ExecutionError"

\* C14: whenever an execution entrypoint raises ExecutionError, the error
\* identifies a failing node: some node of the graph is FAILED, errors has
\* an entry for it, and the raised message contains that node's id.
C14_ErrorNamesFailedNode ==
    RaisedExecutionError
    => \E n \in NodeSet : /\ StatusOf(n) = "failed"
                          /\ n \in DOMAIN errors
                          /\ raised.node = n

\* C14, amended: an ExecutionError that wraps the planner's
\* GraphValidationError names no node, and no node has failed; every other
\* ExecutionError that an entrypoint raises names a node that is FAILED and
\* has an entry in errors.
C14_NamesFailedNodeOrInvalidGraph ==
    RaisedExecutionError
    => IF exc.type = "GraphValidationError"
       THEN /\ raised.node = ""
            /\ \A n \in NodeSet : StatusOf(n) = "pending"
            /\ errors = EmptyMap
       ELSE \E n \in NodeSet : /\ StatusOf(n) = "failed"
                               /\ n \in DOMAIN errors
                               /\ raised.node = n

\* two nodes of one batch failed, the later one of the batch while the
\* earlier one was awaiting its execute: the error names the later one
C14_Witness ==
    /\ RaisedExecutionError
    /\ mode = "execute_parallel_batches"
    /\ \E n, m \in NodeSet :
         /\ BatchOf(n) = BatchOf(m)
         /\ IndexOf(nodes, n) < IndexOf(nodes, m)
         /\ StatusOf(n) = "failed" /\ StatusOf(m) = "failed"
         /\ raised.node = m
         /\ DOMAIN errors = {n, m}

(***************************************************************************)
(* api/executions.py: POST /executions/ on a graph that POST /graphs/      *)
(* stored.                                                                 *)
(***************************************************************************)
\* the classes api/models.py defines
ApiModels ==
    {"NodeDataRequest", "EdgeDataRequest", "GraphCreateRequest", "GraphUpdateRequest",
     "GraphResponse", "ExecutionCreateRequest", "ExecutionResponse", "PortSpecResponse",
     "ParameterSpecResponse", "NodeSpecResponse", "ErrorResponse"}

\* from .models import ... of api/executions.py
ExecutionsImports ==
    {"ExecutionCreateRequest", "ExecutionResponse", "ErrorResponse", "ContextAction"}

\* the fields of the request model
ExecutionCreateRequestFields == {"graph_id", "inputs"}

\* the attributes of the request that the handler reads before the graph
RequestReads == {"inputs", "context_action", "graph_id"}

\* the fields of the NodeData dataclass: the keywords its __init__ takes
NodeDataFields == {"node_id", "node_type", "position", "parameters"}

\* the keywords the handler passes to NodeData for every stored node
ExecutionNodeKeywords ==
    {"node_id", "node_type", "position", "parameters", "label", "description"}

\* What stops the handler before the run: the module's import (main.py
\* imports the router, so the application does not start), the read of an
\* attribute the request model has not, or the NodeData call with keywords
\* the dataclass has not (once per node of the stored graph).
EndpointError ==
    CASE ~(ExecutionsImports \subseteq ApiModels) -> "ImportError"
      [] ~(RequestReads \subseteq ExecutionCreateRequestFields) -> "AttributeError"
      [] nodes # <<>> /\ ~(ExecutionNodeKeywords \subseteq NodeDataFields) -> "TypeError"
      [] OTHER -> "none"

\* the graphs a client stores and executes: registered built-in nodes,
\* joined output to input, and the inputs of the request
ApiTypes == {"input", "text_transform"}

ApiInputs == {EmptyMap, [k \in {"input_1"} |-> "world"]}

InitApi ==
    /\ \E n \in 0..MaxNodes : nodes = NodePrefix(n)
    /\ node_type \in [NodeSet -> ApiTypes]
    /\ streaming = {}
    /\ \E k \in 0..MaxRunEdges : edges \in [1..k -> RunEdges("execute_graph", node_type)]
    /\ param_value \in RunValues(node_type)
    /\ call_inputs \in ApiInputs
    /\ ret = NoRet
    /\ NoCaller
    /\ mode = "execute_graph"
    /\ main_pc = "request"
    /\ execution_order = <<>>
    /\ batches = <<>>
    /\ idx = 0
    /\ task_pc = [n \in NodeSet |-> "none"]
    /\ node_status = EmptyMap
    /\ node_outputs = EmptyMap
    /\ errors = EmptyMap
    /\ completed_at = FALSE
    /\ called = [n \in NodeSet |-> 0]
    /\ chunks = [n \in NodeSet |-> <<>>]
    /\ events = <<>>
    /\ exc = NoExc
    /\ raised = NoExc

\* The handler up to "context = await executor.execute_graph(...)".  An
\* exception before the record is created leaves the inner try untouched:
\* "except Exception as e: raise HTTPException(status_code=500, ...)".
PostExecutions ==
    /\ main_pc = "request"
    /\ http_status = "none"
    /\ IF EndpointError = "none"
       THEN /\ db_execution' = "pending"
            /\ http_status' = http_status
            /\ main_pc' = "idle"
       ELSE /\ db_execution' = db_execution
            /\ http_status' = IF EndpointError = "ImportError"
                               THEN "no response" ELSE "500"
            /\ main_pc' = "responded"
    /\ UNCHANGED <<graph_vars, first_run, reruns, instance_vars, ret, mode, execution_order, batches,
                   idx, task_pc, node_status, node_outputs, errors, completed_at,
                   called, chunks, events, exc, raised>>

\* No request gets past the conversion, so the run that the handler would
\* await is never entered.
NextApi == PostExecutions

SpecApi == InitApi /\ [][NextApi]_vars

\* C15: a valid graph of registered built-in nodes that was stored and is
\* executed through POST /executions/ with an input override is answered
\* with HTTP 200 and an execution record whose status is "completed".
C15_StoredGraphExecutes ==
    (/\ main_pc # "request"
     /\ Validate(nodes, edges).is_valid
     /\ call_inputs # EmptyMap)
    => /\ http_status = "200"
       /\ db_execution = "completed"

(***************************************************************************)
(* When a node may start.                                                  *)
(***************************************************************************)
Running == {n \in NodeSet : StatusOf(n) = "running"}

\* C16: in every execution mode a node enters RUNNING only when every node
\* that is the source of an edge into it already has status COMPLETED, and
\* no two nodes that are RUNNING at the same time are joined by an edge.
C16_StartsAfterSources ==
    [][/\ \A n \in NodeSet :
            (StatusOf(n) # "running" /\ n \in DOMAIN node_status'
                                     /\ node_status'[n] = "running")
            => \A p \in Preds(n) : StatusOf(p) = "completed"
       /\ \A n, m \in NodeSet :
            (/\ n \in DOMAIN node_status' /\ node_status'[n] = "running"
             /\ m \in DOMAIN node_status' /\ node_status'[m] = "running")
            => m \notin Preds(n)]_vars

\* two nodes of one batch are RUNNING, both fed by a COMPLETED node
C16_Witness ==
    /\ mode = "execute_parallel_batches"
    /\ Cardinality(Running) = 2
    /\ \A n \in Running : \E p \in Preds(n) : StatusOf(p) = "completed"

(***************************************************************************)
(* The same graph and inputs under execute_graph and then under            *)
(* execute_parallel_batches.  The nodes are deterministic: execute raises  *)
(* nothing of its own.                                                     *)
(***************************************************************************)
\* graph.nodes keeps the order in which the nodes were added: the ids in
\* their sorted order, or the other way round
NodeOrders(n) == {NodePrefix(n), [i \in 1..n |-> NodeName[n + 1 - i]]}

InitCompare ==
    /\ mode = "execute_graph"
    /\ \E n \in 0..MaxNodes : nodes \in NodeOrders(n)
    /\ node_type \in [NodeSet -> RunTypes(mode)]
    /\ streaming = {}
    /\ \E k \in 0..MaxRunEdges : edges \in [1..k -> RunEdges(mode, node_type)]
    /\ Validate(nodes, edges).is_valid
    /\ param_value \in RunValues(node_type)
    /\ call_inputs \in ApiInputs
    /\ ret = NoRet
    /\ NoCaller
    /\ main_pc = "idle"
    /\ execution_order = <<>>
    /\ batches = <<>>
    /\ idx = 0
    /\ task_pc = [n \in NodeSet |-> "none"]
    /\ node_status = EmptyMap
    /\ node_outputs = EmptyMap
    /\ errors = EmptyMap
    /\ completed_at = FALSE
    /\ called = [n \in NodeSet |-> 0]
    /\ chunks = [n \in NodeSet |-> <<>>]
    /\ events = <<>>
    /\ exc = NoExc
    /\ raised = NoExc

\* the call has returned or raised, and no task of it is still in flight
Ended ==
    /\ main_pc \in {"returned", "raised"}
    /\ \A n \in NodeSet : task_pc[n] \in {"none", "done", "failed"}

\* The caller keeps what execute_graph left in its context and calls
\* execute_parallel_batches(graph, inputs), which builds a context of its own.
CallParallel ==
    /\ mode = "execute_graph"
    /\ Ended
    /\ ~first_run.kept
    /\ first_run' = [node_status |-> node_status, node_outputs |-> node_outputs,
                     kept |-> TRUE]
    /\ mode' = "execute_parallel_batches"
    /\ main_pc' = "idle"
    /\ execution_order' = <<>>
    /\ batches' = <<>>
    /\ idx' = 0
    /\ task_pc' = [n \in NodeSet |-> "none"]
    /\ node_status' = EmptyMap
    /\ node_outputs' = EmptyMap
    /\ errors' = EmptyMap
    /\ completed_at' = FALSE
    /\ called' = [n \in NodeSet |-> 0]
    /\ chunks' = [n \in NodeSet |-> <<>>]
    /\ events' = <<>>
    /\ exc' = NoExc
    /\ raised' = NoExc
    /\ UNCHANGED <<graph_vars, http_status, db_execution, reruns, instance_vars, ret>>

NextCompare ==
    \/ Enter
    \/ PlanOrder
    \/ PlanBatches
    \/ LaunchBatch
    \/ \E n \in NodeSet : StartNode(n)
    \/ \E n \in NodeSet : TaskStart(n)
    \/ \E n \in NodeSet : Resolve(n)
    \/ \E n \in NodeSet : ExecuteReturn(n)
    \/ NodeDone
    \/ GatherReturn
    \/ GatherRaise
    \/ Finish
    \/ Handler
    \/ CallParallel

SpecCompare == InitCompare /\ [][NextCompare]_vars

\* C17: for the same valid graph, the same inputs and deterministic node
\* logic, execute_parallel_batches ends with the same node_status and
\* node_outputs as execute_graph, and the nodes read the same
\* execution_inputs in both modes.
C17_ParallelEqualsSequential ==
    (mode = "execute_parallel_batches" /\ first_run.kept)
    => /\ ExecutionInputs = call_inputs
       /\ Ended => /\ node_status = first_run.node_status
                   /\ node_outputs = first_run.node_outputs

\* the same for the calls without inputs whose nodes all succeed
C17_EqualWithoutInputs ==
    (/\ mode = "execute_parallel_batches" /\ first_run.kept
     /\ call_inputs = EmptyMap
     /\ \A n \in NodeSet : first_run.node_status[n] = "completed")
    => /\ ExecutionInputs = call_inputs
       /\ Ended => /\ node_status = first_run.node_status
                   /\ node_outputs = first_run.node_outputs

(***************************************************************************)
(* The context after the entrypoint has returned or raised.                *)
(***************************************************************************)
CallOver == completed_at /\ main_pc \in {"returned", "raised"}

\* C18: when an execution entrypoint has returned or raised (completed_at
\* is set), no node is left RUNNING and the context is not written any
\* more: no node status, output or error changes after the run has ended,
\* also when a node of a parallel batch failed with peers in flight.
C18_ContextQuietAfterEnd ==
    [][/\ CallOver' => \A n \in NodeSet :
                          ~(n \in DOMAIN node_status' /\ node_status'[n] = "running")
       /\ CallOver => UNCHANGED <<node_status, node_outputs, errors>>]_vars

\* the same for the entrypoints that await one node after the other
C18_QuietAfterSequentialEnd ==
    [][/\ (mode \in LoopModes /\ CallOver')
            => \A n \in NodeSet :
                  ~(n \in DOMAIN node_status' /\ node_status'[n] = "running")
       /\ (mode \in LoopModes /\ CallOver)
            => UNCHANGED <<node_status, node_outputs, errors>>]_vars

(***************************************************************************)
(* execute_graph_with_context, also on a context that an earlier call left *)
(* behind.                                                                 *)
(***************************************************************************)
\* further calls the caller makes on one context
MaxReruns == 1

InitReuse ==
    /\ mode = "execute_graph_with_context"
    /\ \E n \in 0..MaxNodes : nodes = NodePrefix(n)
    /\ node_type \in [NodeSet -> RunTypes(mode)]
    /\ streaming = {}
    /\ \E k \in 0..MaxRunEdges : edges \in [1..k -> RunEdges(mode, node_type)]
    /\ param_value \in RunValues(node_type)
    /\ call_inputs \in RunInputs
    /\ ret = NoRet
    /\ NoCaller
    /\ main_pc = "idle"
    /\ execution_order = <<>>
    /\ batches = <<>>
    /\ idx = 0
    /\ task_pc = [n \in NodeSet |-> "none"]
    /\ node_status = EmptyMap
    /\ node_outputs = EmptyMap
    /\ errors = EmptyMap
    /\ completed_at = FALSE
    /\ called = [n \in NodeSet |-> 0]
    /\ chunks = [n \in NodeSet |-> <<>>]
    /\ events = <<>>
    /\ exc = NoExc
    /\ raised = NoExc

\* The caller hands the context of the call that is over to
\* execute_graph_with_context again: a new call, on the node_status,
\* node_outputs, errors and completed_at the earlier one left.
CallAgain ==
    /\ mode = "execute_graph_with_context"
    /\ CallOver
    /\ reruns < MaxReruns
    /\ reruns' = reruns + 1
    /\ main_pc' = "idle"
    /\ execution_order' = <<>>
    /\ idx' = 0
    /\ task_pc' = [n \in NodeSet |-> "none"]
    /\ exc' = NoExc
    /\ raised' = NoExc
    /\ UNCHANGED <<graph_vars, http_status, db_execution, first_run, instance_vars, ret, mode, batches,
                   node_status, node_outputs, errors, completed_at, called, chunks,
                   events>>

NextReuse ==
    \/ Enter
    \/ PlanOrder
    \/ \E n \in NodeSet : StartNode(n)
    \/ \E n \in NodeSet : Resolve(n)
    \/ \E n \in NodeSet : ExecuteReturn(n)
    \/ \E n \in NodeSet : ExecuteRaise(n)
    \/ NodeDone
    \/ Finish
    \/ Handler
    \/ CallAgain

SpecReuse == InitReuse /\ [][NextReuse]_vars

\* C19: in every reachable state of a run, errors has an entry for node n
\* exactly when node_status[n] is FAILED, and node_outputs has no entry for
\* a FAILED or PENDING node, also when execute_graph_with_context is called
\* again on a context that an earlier run left behind.
C19_ErrorsAndOutputsMatchStatus ==
    \A n \in NodeSet :
        /\ n \in DOMAIN errors <=> StatusOf(n) = "failed"
        /\ StatusOf(n) \in {"failed", "pending"} => n \notin DOMAIN node_outputs

\* the same for the first call on a context
C19_MatchOnFreshContext ==
    reruns = 0 => C19_ErrorsAndOutputsMatchStatus

(***************************************************************************)
(* When validate reports a cycle.                                          *)
(***************************************************************************)
ReportsCycle == \E i \in 1..Len(ret.errors) : ret.errors[i] = CycleError

\* C20: validate reports the cycle error only for graphs that contain a
\* directed cycle: for a graph without a cycle, also one with dangling or
\* duplicate edges, the error list holds no cycle error.
C20_CycleErrorOnlyForCycles ==
    (ret.op = "validate" /\ ReportsCycle) => HasCycle

\* the same for the graphs whose edges all join existing nodes
C20_OnlyForCyclesWithoutDangling ==
    (ret.op = "validate" /\ ReportsCycle /\ NoDanglingEdge) => HasCycle

(***************************************************************************)
(* The context specification: core/types.py ExecutionContext on its own.   *)
(* A graph is drawn, and set_node_output and get_input_value are called on *)
(* a context of it in any order.                                           *)
(***************************************************************************)
\* the ports the calls on the context name
ContextSourcePorts == {"output", "response"}
ContextTargetPorts == {"text", "message"}

\* what a node may have returned for a port (None included)
ContextValues == {Null, "hello", "world"}

\* the nodes that feed: the edges of a context graph lead from one of the
\* first two nodes to the last node
ContextSources == {NodeName[1], NodeName[2]}
ContextNodes == <<NodeName[1], NodeName[2], NodeName[3]>>

ContextEdges ==
    {EdgeData(s, "output", NodeName[3], tp) :
        s \in ContextSources, tp \in ContextTargetPorts}

\* no call on the context has been made (ret keeps the last call, and for
\* get_input_value its arguments and what it returned)
NoCall == [op |-> "none", node |-> "", port |-> "", value |-> Null]

InitContext ==
    /\ nodes = ContextNodes
    /\ \E k \in 0..MaxEdges : edges \in [1..k -> ContextEdges]
    /\ node_type = [n \in NodeSet |-> "input"]
    /\ streaming = {}
    /\ param_value = [n \in NodeSet |-> Null]
    /\ call_inputs = EmptyMap
    /\ ret = NoCall
    /\ NoRun
    /\ NoCaller

\* context.set_node_output(node_id, port_name, value)
SetNodeOutput(node_id, port_name, value) ==
    /\ node_outputs' =
          LET old == IF node_id \in DOMAIN node_outputs
                     THEN node_outputs[node_id] ELSE EmptyMap
          IN Put(node_outputs, node_id, Put(old, port_name, value))
    /\ ret' = [NoCall EXCEPT !.op = "set_node_output"]
    /\ UNCHANGED <<graph_vars, caller_vars, mode, main_pc, execution_order, batches,
                   idx, task_pc, node_status, errors, completed_at, called, chunks,
                   events, exc, raised>>

\* context.get_input_value(node_id, port_name)
CallGetInputValue(node_id, port_name) ==
    /\ ret' = [op |-> "get_input_value", node |-> node_id, port |-> port_name,
               value |-> GetInputValue(edges, node_outputs, node_id, port_name)]
    /\ UNCHANGED <<graph_vars, caller_vars, run_vars>>

NextContext ==
    \/ \E n \in ContextSources, p \in ContextSourcePorts, v \in ContextValues :
          SetNodeOutput(n, p, v)
    \/ \E n \in NodeSet, p \in ContextTargetPorts : CallGetInputValue(n, p)

SpecContext == InitContext /\ [][NextContext]_vars

\* the edges into (node_id, port_name), by their place in the edge list
EdgesInto(node_id, port_name) ==
    {i \in 1..Len(edges) :
        edges[i].target_node = node_id /\ edges[i].target_port = port_name}

\* the first of them
FirstEdgeInto(node_id, port_name) ==
    CHOOSE i \in EdgesInto(node_id, port_name) :
        \A j \in EdgesInto(node_id, port_name) : i <= j

\* the output recorded at an edge's source, None when nothing is recorded
RecordedAt(edge) ==
    IF edge.source_node \in DOMAIN node_outputs
       /\ edge.source_port \in DOMAIN node_outputs[edge.source_node]
    THEN node_outputs[edge.source_node][edge.source_port]
    ELSE Null

\* C21: get_input_value(node, port) returns the output recorded at the
\* source of the first edge, in edge-list order, whose target is
\* (node, port), and null when no edge targets (node, port) or when that
\* edge's source has no recorded value; later edges into the port are not
\* consulted, and the call changes nothing in the context or the graph.
C21_FirstEdgeDecides ==
    [][ret'.op = "get_input_value" =>
          /\ ret'.value =
                IF EdgesInto(ret'.node, ret'.port) = {} THEN Null
                ELSE RecordedAt(edges[FirstEdgeInto(ret'.node, ret'.port)])
          /\ UNCHANGED <<graph_vars, node_outputs, node_status, errors, completed_at>>
      ]_vars

\* a call has answered for a port that two edges enter from sources with
\* different recorded values, with the value of the first
C21_Witness ==
    /\ ret.op = "get_input_value"
    /\ \E i, j \in EdgesInto(ret.node, ret.port) :
          /\ i = FirstEdgeInto(ret.node, ret.port)
          /\ i < j
          /\ RecordedAt(edges[i]) # Null
          /\ RecordedAt(edges[j]) # Null
          /\ RecordedAt(edges[i]) # RecordedAt(edges[j])
          /\ ret.value = RecordedAt(edges[i])

(***************************************************************************)
(* The node specification: _execute_node on a node of a registered class   *)
(* whose declared input ports are drawn (NodeRegistry.register takes any   *)
(* BaseNode class, and PortSpec carries required and default freely) and   *)
(* whose execute is TextTransformNode.execute.  The node is the last of    *)
(* the graph; the nodes that feed it have COMPLETED.                        *)
(***************************************************************************)
\* PortSpec.default of a declared port: None or a value
PortDefaults == {Null, "dflt"}

\* spec.inputs of the class: "text", and possibly "message" after it
DeclaredPorts ==
    {<<PortSpec("text", r, d)>> : r \in BOOLEAN, d \in PortDefaults}
    \cup {<<PortSpec("text", r1, d1), PortSpec("message", r2, d2)>> :
             r1 \in BOOLEAN, d1 \in PortDefaults,
             r2 \in BOOLEAN, d2 \in PortDefaults}

\* the node _execute_node is called on
Subject == NodeName[3]

\* no _execute_node call has been made
NoNodeCall ==
    [op |-> "none", ports |-> <<>>, inputs |-> EmptyMap, valid |-> FALSE,
     text |-> Null]

InitNode ==
    /\ nodes = ContextNodes
    /\ \E k \in 0..MaxEdges : edges \in [1..k -> ContextEdges]
    /\ node_type = [n \in NodeSet |-> IF n = Subject THEN "registered" ELSE "input"]
    /\ streaming = {}
    /\ param_value = [n \in NodeSet |-> Null]
    /\ call_inputs = EmptyMap
    /\ ret = NoNodeCall
    /\ mode = "none"
    /\ main_pc = "idle"
    /\ execution_order = <<>>
    /\ batches = <<>>
    /\ idx = 0
    /\ task_pc = [n \in NodeSet |-> IF n \in ContextSources THEN "done" ELSE "none"]
    /\ node_status = [n \in ContextSources |-> "completed"]
    /\ node_outputs \in [ContextSources -> [{"output"} -> ContextValues]]
    /\ errors = EmptyMap
    /\ completed_at = FALSE
    /\ called = [n \in NodeSet |-> IF n \in ContextSources THEN 1 ELSE 0]
    /\ chunks = [n \in NodeSet |-> <<>>]
    /\ events = <<>>
    /\ exc = NoExc
    /\ raised = NoExc
    /\ NoCaller

\* _execute_node(context, Subject) for a class with spec.inputs = ports:
\* RUNNING, the input collection, validate_inputs, then either the raise
\* that the handler records (FAILED, errors) or execute, whose returned
\* mapping is stored before the status becomes COMPLETED.  The execute has
\* no await, so the call runs through.
ExecuteNode(ports) ==
    /\ Subject \notin DOMAIN node_status
    /\ LET inputs == CollectInputs(ports, edges, node_outputs, Subject, EmptyMap)
           valid  == ValidateInputs(ports, inputs)
           value  == GetInputValue(edges, node_outputs, Subject, "text")
           text   == IF value = Null THEN "" ELSE value
           error  == <<"Missing required inputs",
                       [i \in 1..Len(MissingRequired(ports, inputs)) |->
                           MissingRequired(ports, inputs)[i].name]>>
       IN /\ ret' = [op |-> "_execute_node", ports |-> ports, inputs |-> inputs,
                     valid |-> valid, text |-> IF valid THEN text ELSE Null]
          /\ IF valid
             THEN /\ node_outputs' = StoreOutputs(node_outputs, Subject,
                                        [k \in {"output"} |-> Upper(text)])
                  /\ node_status' = Put(node_status, Subject, "completed")
                  /\ task_pc' = [task_pc EXCEPT ![Subject] = "done"]
                  /\ called' = [called EXCEPT ![Subject] = @ + 1]
                  /\ UNCHANGED <<errors, exc>>
             ELSE /\ node_status' = Put(node_status, Subject, "failed")
                  /\ errors' = Put(errors, Subject, error)
                  /\ task_pc' = [task_pc EXCEPT ![Subject] = "failed"]
                  /\ exc' = Exception("ExecutionError", Subject, error)
                  /\ UNCHANGED <<node_outputs, called>>
    /\ UNCHANGED <<graph_vars, caller_vars, mode, main_pc, execution_order, batches,
                   idx, completed_at, chunks, events, raised>>

NextNode == \E ports \in DeclaredPorts : ExecuteNode(ports)

SpecNode == InitNode /\ [][NextNode]_vars

\* what get_input_value gives the subject for a port
Connected(port) == GetInputValue(edges, node_outputs, Subject, port.name)

\* C22: when the executor collects a node's inputs, a declared port gets
\* the connected value if that is non-null; otherwise the port's default
\* if the port is required and the default is non-null; otherwise the port
\* is left absent.  So an optional port never receives its default, and a
\* required port with null value and null default fails input validation.
C22_CollectedInputs ==
    ret.op = "_execute_node" =>
        /\ DOMAIN ret.inputs \subseteq {ret.ports[i].name : i \in 1..Len(ret.ports)}
        /\ \A i \in 1..Len(ret.ports) :
              LET port == ret.ports[i]
              IN /\ Connected(port) # Null =>
                       /\ port.name \in DOMAIN ret.inputs
                       /\ ret.inputs[port.name] = Connected(port)
                 /\ (Connected(port) = Null /\ port.required /\ port.default # Null) =>
                       /\ port.name \in DOMAIN ret.inputs
                       /\ ret.inputs[port.name] = port.default
                 /\ (Connected(port) = Null /\ ~(port.required /\ port.default # Null)) =>
                       port.name \notin DOMAIN ret.inputs
                 /\ (Connected(port) = Null /\ port.required /\ port.default = Null) =>
                       /\ ~ret.valid
                       /\ StatusOf(Subject) = "failed"

\* a node with a required port that took its default and an optional port
\* with a default that was left absent, both unfed
C22_Witness ==
    /\ ret.op = "_execute_node"
    /\ \E i, j \in 1..Len(ret.ports) :
          /\ Connected(ret.ports[i]) = Null
          /\ ret.ports[i].required
          /\ ret.ports[i].default # Null
          /\ ret.ports[i].name \in DOMAIN ret.inputs
          /\ Connected(ret.ports[j]) = Null
          /\ ~ret.ports[j].required
          /\ ret.ports[j].default # Null
          /\ ret.ports[j].name \notin DOMAIN ret.inputs
    /\ ret.valid

\* C23: the input values the executor collects and validates for a node
\* are the values the node's execute works with: for every port of the
\* collected inputs that execute reads, and so for a required port that
\* passed validation only because its default was substituted, execute
\* sees the collected value.
C23_ExecuteSeesCollected ==
    (ret.op = "_execute_node" /\ ret.valid /\ "text" \in DOMAIN ret.inputs) =>
        ret.text = ret.inputs["text"]

\* the same for the ports that an edge fed with a non-null value
C23_ExecuteSeesConnected ==
    (ret.op = "_execute_node" /\ ret.valid /\ "text" \in DOMAIN ret.inputs
        /\ GetInputValue(edges, node_outputs, Subject, "text") # Null) =>
        ret.text = ret.inputs["text"]

\* every required port of n is the target of an edge from a COMPLETED node
RequiredPortsFed(n) ==
    \A port \in Range(SpecInputs(TypeOf(n))) :
        port.required =>
            \E i \in EdgeIndices :
                /\ edges[i].target_node = n
                /\ edges[i].target_port = port.name
                /\ StatusOf(edges[i].source_node) = "completed"

\* C24: in a valid graph whose node types are all registered, a node whose
\* every required input port is the target of an edge from a node that has
\* COMPLETED never fails input validation, whatever values the source
\* nodes returned.
C24_FedNodePassesValidation ==
    (~InvalidGraph /\ \A n \in NodeSet : TypeOf(n) \in node_registry) =>
        \A n \in NodeSet :
            RequiredPortsFed(n) => ErrorKind(n) # "Missing required inputs"

\* the same when no source node returned None for the port of the edge
C24_PassesOnNonNullOutputs ==
    (~InvalidGraph /\ \A n \in NodeSet : TypeOf(n) \in node_registry) =>
        \A n \in NodeSet :
            (RequiredPortsFed(n)
               /\ \A i \in EdgeIndices :
                     (edges[i].target_node = n
                        /\ StatusOf(edges[i].source_node) = "completed")
                     => RecordedAt(edges[i]) # Null)
            => ErrorKind(n) # "Missing required inputs"

(***************************************************************************)
(* The events of a streaming run.                                          *)
(***************************************************************************)
\* the places of the events of a type, and of those of a node
EventsOfType(type) == {i \in 1..Len(events) : events[i].type = type}
EventsOfNode(n) == {i \in 1..Len(events) : events[i].node_id = n}

\* execute_graph_streaming has yielded execution_complete and ended
StreamingSucceeded == mode = "execute_graph_streaming" /\ main_pc = "returned"

\* C25: in a run of execute_graph_streaming that succeeds, the events are,
\* for each node in topological order, that node's node_chunk events (only
\* for streaming-capable nodes) followed by exactly one node_complete event
\* for that node with status 'completed' and its outputs, and then exactly
\* one execution_complete event, which is the last event; no event of a
\* node precedes the node_complete of a node earlier in the order.
C25_StreamingEventOrder ==
    StreamingSucceeded =>
        /\ \A i \in EdgeIndices :
              0 < Position(execution_order, edges[i].source_node)
              /\ Position(execution_order, edges[i].source_node)
                    < Position(execution_order, edges[i].target_node)
        /\ EventsOfType("execution_complete") = {Len(events)}
        /\ EventsOfType("execution_error") = {}
        /\ \A i \in 1..Len(events) :
              events[i].type \in {"node_chunk", "node_complete", "execution_complete"}
        /\ \A i \in EventsOfType("node_chunk") \cup EventsOfType("node_complete") :
              events[i].node_id \in NodeSet
        /\ \A n \in NodeSet :
              /\ \E c \in EventsOfNode(n) :
                    /\ EventsOfNode(n) \cap EventsOfType("node_complete") = {c}
                    /\ events[c].status = "completed"
                    /\ n \in DOMAIN node_outputs
                    /\ events[c].outputs = node_outputs[n]
                    /\ \A i \in EventsOfNode(n) : i <= c
              /\ EventsOfNode(n) \cap EventsOfType("node_chunk") # {}
                    => NodeSupportsStreaming(n)
              /\ \A m \in NodeSet :
                    Position(execution_order, m) < Position(execution_order, n) =>
                        \A i \in EventsOfNode(m), j \in EventsOfNode(n) : i < j

\* a streaming run of two nodes has succeeded, the second with a chunk
C25_Witness ==
    /\ StreamingSucceeded
    /\ Len(execution_order) >= 2
    /\ \E i \in EventsOfType("node_chunk"), j \in EventsOfType("node_complete") :
          /\ i > 1
          /\ j = i + 1
          /\ events[i].node_id = events[j].node_id
          /\ events[i - 1].type = "node_complete"

(***************************************************************************)
(* Streaming a node whose class has execute_streaming.                     *)
(***************************************************************************)
\* the chunks of the node_chunk events of n, in the order of the events
RECURSIVE ChunksOf(_, _)
ChunksOf(evs, n) ==
    IF evs = <<>> THEN <<>>
    ELSE IF Head(evs).type = "node_chunk" /\ Head(evs).node_id = n
         THEN <<Head(evs).chunk>> \o ChunksOf(Tail(evs), n)
         ELSE ChunksOf(Tail(evs), n)

\* C26: in streaming mode, for a node whose implementation offers
\* execute_streaming, the executor emits one node_chunk per chunk the
\* stream produces, in production order, then calls execute exactly once
\* after the stream is exhausted and stores that call's return values as
\* the node's outputs; the node becomes COMPLETED only after that execute
\* call returns, and FAILED if it raises.
C26_StreamThenExecuteOnce ==
    /\ [](\A n \in NodeSet : StreamsChunks(n) =>
            /\ ChunksOf(events, n) = chunks[n]
            /\ \E k \in 0..Len(ResponseStream) :
                  ChunksOf(events, n) \in
                      {SubSeq(ResponseStream, 1, k) \o tail :
                          tail \in {<<>>, <<NoMessageText>>, <<ErrorText>>}}
            /\ called[n] <= 1
            /\ task_pc[n] \in {"resolve", "streaming", "stream_error"} => called[n] = 0
            /\ (called[n] = 0 \/ task_pc[n] = "executing") =>
                  /\ StatusOf(n) # "completed"
                  /\ n \notin DOMAIN node_outputs
            /\ StatusOf(n) = "completed" =>
                  /\ called[n] = 1
                  /\ n \in DOMAIN node_outputs
                  /\ node_outputs[n] \in ExecuteResults(n)
            /\ ErrorKind(n) \in {"execute raised", "execute_streaming raised"} =>
                  StatusOf(n) = "failed")
    /\ [][\A n \in NodeSet : StreamsChunks(n) =>
            /\ called[n] = 1 => chunks'[n] = chunks[n]
            /\ called'[n] # called[n] =>
                  /\ task_pc[n] \in {"streaming", "stream_error"}
                  /\ task_pc'[n] = "executing"
                  /\ StatusOf(n) = "running"
            /\ (task_pc[n] = "executing" /\ task_pc'[n] # "executing") =>
                  \/ node_status'[n] = "completed" /\ n \in DOMAIN node_outputs'
                  \/ node_status'[n] = "failed" /\ ErrorKind(n)' = "execute raised"
      ]_vars

\* a stream has yielded two different chunks of the response, which the
\* events carry in that order, and the node is COMPLETED after its one
\* execute
C26_Witness ==
    \E n \in NodeSet :
        /\ StreamsChunks(n)
        /\ Len(chunks[n]) = 2
        /\ chunks[n][1] \in ResponseChunks
        /\ chunks[n][2] \in ResponseChunks \ {chunks[n][1]}
        /\ \E i, j \in EventsOfType("node_chunk") :
              /\ i < j
              /\ events[i].node_id = n /\ events[i].chunk = chunks[n][1]
              /\ events[j].node_id = n /\ events[j].chunk = chunks[n][2]
        /\ called[n] = 1
        /\ StatusOf(n) = "completed"
        /\ n \in DOMAIN node_outputs

(***************************************************************************)
(* What validate accumulates.                                              *)
(***************************************************************************)
\* the errors of a kind in the returned list
ErrorsOfKind(kinds) == {i \in 1..Len(ret.errors) : ret.errors[i].kind \in kinds}

\* the missing endpoints of the edges: (edge, end) pairs
MissingEndpoints ==
    {<<i, "source">> : i \in {j \in EdgeIndices : edges[j].source_node \notin NodeSet}}
    \cup {<<i, "target">> : i \in {j \in EdgeIndices : edges[j].target_node \notin NodeSet}}

\* the edges that carry a signature
EdgesWith(sg) == {i \in EdgeIndices : Signature(edges[i]) = sg}

\* C27: validate accumulates all violations instead of stopping at the
\* first: the error list has one entry per missing edge endpoint, one entry
\* for each occurrence after the first of a repeated (source_node,
\* source_port, target_node, target_port) tuple (k identical edges give
\* k-1 duplicate errors), and at most one cycle entry; is_valid is true
\* exactly when the list is empty, and the graph is left unchanged.
C27_AccumulatesAllViolations ==
    /\ [](ret.op = "validate" =>
            /\ Cardinality(ErrorsOfKind({"non-existent source node",
                                         "non-existent target node"}))
                  = Cardinality(MissingEndpoints)
            /\ \A sg \in {Signature(edges[i]) : i \in EdgeIndices} :
                  Cardinality({i \in ErrorsOfKind({"Duplicate edge"}) :
                                  ret.errors[i].sig = sg})
                     = Cardinality(EdgesWith(sg)) - 1
            /\ \A i \in ErrorsOfKind({"Duplicate edge"}) :
                  EdgesWith(ret.errors[i].sig) # {}
            /\ Cardinality(ErrorsOfKind({"cycles"})) <= 1
            /\ Len(ret.errors) =
                  Cardinality(ErrorsOfKind({"cycles", "Duplicate edge",
                                            "non-existent source node",
                                            "non-existent target node"}))
            /\ ret.is_valid <=> ret.errors = <<>>)
    /\ [][ret'.op = "validate" => UNCHANGED graph_vars]_vars

\* three identical edges between nodes that do not exist were validated:
\* six endpoint errors and two duplicate errors in one list
C27_Witness ==
    /\ ret.op = "validate"
    /\ \E i \in EdgeIndices :
          /\ Cardinality(EdgesWith(Signature(edges[i]))) = 3
          /\ edges[i].source_node \notin NodeSet
          /\ edges[i].target_node \notin NodeSet
    /\ Cardinality(ErrorsOfKind({"Duplicate edge"})) = 2
    /\ Cardinality(ErrorsOfKind({"non-existent source node",
                                 "non-existent target node"})) = 6
    /\ ~ret.is_valid

(***************************************************************************)
(* The waves of get_parallel_batches.                                      *)
(***************************************************************************)
\* the waves the loop went through: the batches it appended, and the wave
\* that found no ready node
Waves ==
    LET r == GetParallelBatches(nodes, edges)
    IN Len(r.batches) + (IF r.raised = "none" THEN 0 ELSE 1)

\* a node of the graph that no wave can make ready: it lies on a directed
\* cycle, or behind one, or behind an edge whose source node does not exist
Blocked(n) ==
    \/ Reaches(n, n)
    \/ \E x \in Ids : Reaches(x, n) /\ (x \notin NodeSet \/ Reaches(x, x))

\* C28: get_parallel_batches always terminates: for a graph of n nodes it
\* returns after at most n waves, and when a wave finds no ready node (a
\* directed cycle, or an edge whose source node does not exist) it raises
\* GraphValidationError rather than looping or returning a partial batch
\* list.
C28_WavesEndOrRaise ==
    ret.op = "get_parallel_batches" =>
        /\ Waves <= Len(nodes)
        /\ ret.raised \in {"none", "GraphValidationError"}
        /\ ret.raised = "GraphValidationError" <=> \E n \in NodeSet : Blocked(n)
        /\ ret.raised = "GraphValidationError" => ret.batches = <<>>
        /\ ret.raised = "none" =>
              /\ Range(Flatten(ret.batches)) = NodeSet
              /\ Len(Flatten(ret.batches)) = Len(nodes)
              /\ \A k \in 1..Len(ret.batches) : ret.batches[k] # <<>>

\* the call raised in a later wave, after a first wave had found ready
\* nodes, on a graph without a cycle: an edge from a node that does not
\* exist blocks a node
C28_Witness ==
    /\ ret.op = "get_parallel_batches"
    /\ ret.raised = "GraphValidationError"
    /\ ~HasCycle
    /\ GetParallelBatches(nodes, edges).batches # <<>>
    /\ Waves = Len(nodes)

(***************************************************************************)
(* The instance specification: core/instance_executor.py.  An instance of  *)
(* a stored graph is created, and execute_instance and reset_instance are  *)
(* called on it one after the other; each execute_instance runs the graph  *)
(* with execute_graph_with_context on a context of its own.                *)
(***************************************************************************)
\* calls on one instance
MaxCalls == 3

\* the graphs of the instances: an input node A and a node B behind it,
\* joined at B's first port or not joined
InstanceTypes == {"immutable_chat", "smart_chat", "text_transform", "nope"}

InstanceEdges(type) ==
    {<<>>, <<EdgeData(NodeName[1], "output", NodeName[2], FedPort(type))>>}

\* the inputs argument of execute_instance
InstanceInputs == ApiInputs

\* "Inject previous context IDs from last execution": enhanced_inputs
EnhancedInputs(inputs) ==
    IF ~instance.last_outputs_null /\ instance.last_outputs # EmptyMap
       /\ instance.run_count > 0
    THEN LET last  == instance.last_outputs
             \* the port whose value is handed on: context_key, elif context_id
             Port(n) == IF "context_key" \in DOMAIN last[n] THEN "context_key"
                        ELSE "context_id"
             keyed == {n \in DOMAIN last :
                          DOMAIN last[n] \cap {"context_key", "context_id"} # {}}
             Injected(n) == "_" \o Port(n) \o "_" \o n
         IN [k \in DOMAIN inputs \cup {Injected(n) : n \in keyed} |->
                IF \E n \in keyed : k = Injected(n)
                THEN LET n == CHOOSE m \in keyed : k = Injected(m)
                     IN last[n][Port(n)]
                ELSE inputs[k]]
    ELSE inputs

\* the last row of executions with another status
SetLastStatus(status) == [executions EXCEPT ![Len(executions)] = status]

InitInstance ==
    /\ nodes = <<NodeName[1], NodeName[2]>>
    /\ \E type \in InstanceTypes :
          /\ node_type = [n \in NodeSet |-> IF n = NodeName[1] THEN "input" ELSE type]
          /\ edges \in InstanceEdges(type)
    /\ streaming = {}
    /\ \E v \in {"hello", ""} :
          param_value = [n \in NodeSet |-> IF n = NodeName[1] THEN v ELSE Null]
    /\ call_inputs = EmptyMap
    /\ ret = NoRet
    /\ NoCaller
    /\ mode = "execute_graph_with_context"
    /\ main_pc = "no call"
    /\ execution_order = <<>>
    /\ batches = <<>>
    /\ idx = 0
    /\ task_pc = [n \in NodeSet |-> "none"]
    /\ node_status = EmptyMap
    /\ node_outputs = EmptyMap
    /\ errors = EmptyMap
    /\ completed_at = FALSE
    /\ called = [n \in NodeSet |-> 0]
    /\ chunks = [n \in NodeSet |-> <<>>]
    /\ events = <<>>
    /\ exc = NoExc
    /\ raised = NoExc

\* execute_instance up to "await self.executor.execute_graph_with_context":
\* the execution record is stored with status "running", the inputs are
\* enhanced from last_outputs, and a context of this call is created.
BeginExecuteInstance(inputs) ==
    /\ main_pc = "no call"
    /\ Len(history) < MaxCalls
    /\ executions' = Append(executions, "running")
    /\ call_inputs' = EnhancedInputs(inputs)
    /\ main_pc' = "idle"
    /\ execution_order' = <<>>
    /\ idx' = 0
    /\ task_pc' = [n \in NodeSet |-> "none"]
    /\ node_status' = EmptyMap
    /\ node_outputs' = EmptyMap
    /\ errors' = EmptyMap
    /\ completed_at' = FALSE
    /\ called' = [n \in NodeSet |-> 0]
    /\ exc' = NoExc
    /\ raised' = NoExc
    /\ UNCHANGED <<nodes, edges, node_type, streaming, param_value, http_status,
                   db_execution, first_run, reruns, instance, history, ret, mode,
                   batches, chunks, events>>

\* execute_graph_with_context returned final_context: "Update instance
\* state", "Update execution record", commit, return execution_record
EndExecuteInstance ==
    /\ mode = "execute_graph_with_context"
    /\ main_pc = "returned"
    /\ Len(executions) > 0
    /\ executions[Len(executions)] = "running"
    /\ LET status == IF errors = EmptyMap THEN "completed" ELSE "failed"
       IN /\ instance' = [run_count |-> instance.run_count + 1,
                          last_outputs |-> node_outputs,
                          last_outputs_null |-> FALSE]
          /\ executions' = SetLastStatus(status)
          /\ history' = Append(history, [op |-> "execute_instance",
                                         outcome |-> "returned", status |-> status])
    /\ main_pc' = "no call"
    /\ UNCHANGED <<graph_vars, http_status, db_execution, first_run, reruns, ret, mode,
                   execution_order, batches, idx, task_pc, node_status, node_outputs,
                   errors, completed_at, called, chunks, events, exc, raised>>

\* a run that counts although it raised
FailExecuteInstanceCounted ==
    /\ mode = "execute_graph_with_context"
    /\ main_pc = "raised"
    /\ Len(executions) > 0
    /\ executions[Len(executions)] = "running"
    /\ instance' = [instance EXCEPT !.run_count = @ + 1]
    /\ executions' = SetLastStatus("failed")
    /\ history' = Append(history, [op |-> "execute_instance",
                                   outcome |-> "raised", status |-> "failed"])
    /\ main_pc' = "no call"
    /\ UNCHANGED <<graph_vars, http_status, db_execution, first_run, reruns, ret, mode,
                   execution_order, batches, idx, task_pc, node_status, node_outputs,
                   errors, completed_at, called, chunks, events, exc, raised>>

\* "except Exception as e:" of execute_instance: the record is marked
\* failed and committed, and the exception goes on to the caller
FailExecuteInstance ==
    /\ mode = "execute_graph_with_context"
    /\ main_pc = "raised"
    /\ Len(executions) > 0
    /\ executions[Len(executions)] = "running"
    /\ executions' = SetLastStatus("failed")
    /\ history' = Append(history, [op |-> "execute_instance",
                                   outcome |-> "raised", status |-> "failed"])
    /\ main_pc' = "no call"
    /\ UNCHANGED <<graph_vars, http_status, db_execution, first_run, reruns, instance,
                   ret, mode, execution_order, batches, idx, task_pc, node_status,
                   node_outputs, errors, completed_at, called, chunks, events, exc,
                   raised>>

\* reset_instance(db, instance_id, keys): with keys None the state, the
\* run_count and last_outputs are reset; with keys only those keys of
\* instance_state are cleared
ResetInstance(all) ==
    /\ main_pc = "no call"
    /\ Len(history) < MaxCalls
    /\ instance' = IF all THEN NoInstance ELSE instance
    /\ history' = Append(history, [op |-> "reset_instance",
                                   outcome |-> IF all THEN "all" ELSE "keys",
                                   status |-> ""])
    /\ UNCHANGED <<graph_vars, http_status, db_execution, first_run, reruns, executions,
                   ret, run_vars>>

NextInstance ==
    \/ \E inputs \in InstanceInputs : BeginExecuteInstance(inputs)
    \/ Enter
    \/ PlanOrder
    \/ \E n \in NodeSet : StartNode(n)
    \/ \E n \in NodeSet : Resolve(n)
    \/ \E n \in NodeSet : ExecuteReturn(n)
    \/ \E n \in NodeSet : ExecuteRaise(n)
    \/ NodeDone
    \/ Finish
    \/ Handler
    \/ EndExecuteInstance
    \/ FailExecuteInstance
    \/ \E all \in BOOLEAN : ResetInstance(all)

SpecInstance == InitInstance /\ [][NextInstance]_vars

\* the place of the last full reset in the history, 0 when there is none
LastFullReset ==
    LET resets == {i \in 1..Len(history) :
                      history[i].op = "reset_instance" /\ history[i].outcome = "all"}
    IN IF resets = {} THEN 0 ELSE CHOOSE i \in resets : \A j \in resets : j <= i

\* the execute_instance calls that returned since creation or the last
\* full reset
SucceededSinceReset ==
    {i \in (LastFullReset + 1)..Len(history) :
        history[i].op = "execute_instance" /\ history[i].outcome = "returned"}

\* C29: after any sequence of sequential execute_instance and
\* reset_instance calls, run_count equals the number of execute_instance
\* calls that succeeded since creation or the last full reset: a successful
\* call raises run_count by exactly one and replaces last_outputs with the
\* run's node_outputs, a failed call leaves run_count and last_outputs
\* unchanged and marks its execution record 'failed', and no execution
\* record is left 'running' once its call has ended.
C29_RunCountCountsSuccesses ==
    /\ [](/\ instance.run_count = Cardinality(SucceededSinceReset)
          /\ \A i \in 1..Len(history) :
                history[i].op = "execute_instance" =>
                   /\ history[i].status \in {"completed", "failed"}
                   /\ history[i].outcome = "raised" => history[i].status = "failed"
          /\ \A i \in 1..Len(executions) :
                executions[i] = "running" => (i = Len(executions) /\ main_pc # "no call"))
    /\ [][Len(history') > Len(history) =>
            LET call == history'[Len(history')]
            IN /\ (call.op = "execute_instance" /\ call.outcome = "returned") =>
                     /\ instance'.run_count = instance.run_count + 1
                     /\ ~instance'.last_outputs_null
                     /\ instance'.last_outputs = node_outputs
               /\ (call.op = "execute_instance" /\ call.outcome = "raised") =>
                     /\ instance' = instance
                     /\ executions'[Len(executions')] = "failed"
               /\ (call.op = "reset_instance" /\ call.outcome = "keys") =>
                     instance' = instance
      ]_vars

\* a call succeeded, the next failed, a third succeeded: run_count is 2
C29_Witness ==
    /\ main_pc = "no call"
    /\ Len(history) = 3
    /\ history[1].outcome = "returned"
    /\ history[2].outcome = "raised"
    /\ history[3].outcome = "returned"
    /\ instance.run_count = 2
    /\ instance.last_outputs = node_outputs
    /\ executions = <<"completed", "failed", "completed">>

(***************************************************************************)
(* The context key an instance hands from one run to the next.             *)
(***************************************************************************)
\* a call of execute_instance is under way
InstanceCallRunning == mode = "execute_graph_with_context" /\ main_pc # "no call"

\* C30: from the second run of a graph instance on, an immutable_chat node
\* that has no context_key edge continues from the context key that the
\* same node output in the previous run: the key the instance executor
\* injects into the run's inputs from last_outputs is the key the node
\* reads as its previous context.
C30_ContinuesFromLastKey ==
    \A n \in NodeSet :
        (/\ InstanceCallRunning
         /\ instance.run_count > 0
         /\ TypeOf(n) = "immutable_chat"
         /\ Unfed(n, "context_key")
         /\ n \in DOMAIN instance.last_outputs
         /\ "context_key" \in DOMAIN instance.last_outputs[n])
        => PrevContextKey(n) = instance.last_outputs[n]["context_key"]

\* what the executor does hand over: the key is among the run's inputs,
\* under a name that carries the node id
C30_KeyInjectedUnderNodeName ==
    \A n \in NodeSet :
        (/\ InstanceCallRunning
         /\ instance.run_count > 0
         /\ n \in DOMAIN instance.last_outputs
         /\ "context_key" \in DOMAIN instance.last_outputs[n])
        => /\ ("_context_key_" \o n) \in DOMAIN call_inputs
           /\ call_inputs["_context_key_" \o n] = instance.last_outputs[n]["context_key"]

====
